---- MODULE Spec2Model ----
(***************************************************************************)
(* Model of the playground's graph-to-code compiler                        *)
(* (playground/src/core/graph/transformer.ts, multi-component version):    *)
(* topologicalSort, hasCycle, findConnectedComponents, generateTLangCode   *)
(* and validateGraph, applied to bounded (nodes, edges) inputs.            *)
(*                                                                         *)
(* Strings that the code inspects character by character (node ids) are    *)
(* sequences of one-character strings.  JavaScript Map and Set are         *)
(* modelled with their insertion order: a Map is a function whose DOMAIN   *)
(* holds the keys present, a Set that is iterated is a duplicate-free      *)
(* sequence.  The generated text is modelled by its structure: the import  *)
(* list, one block per component (node map, connections, initial values,   *)
(* Exec statements, result alias) and the final Result declaration.        *)
(*                                                                         *)
(* Further specifications over the same variables: generateNodeVarName on  *)
(* its own (SpecSanitize), repeated invocations (SpecSession), the         *)
(* editor's Run button (SpecEditor), and hasCycle and topologicalSort step *)
(* by step (SpecHasCycle, SpecKahn).                                       *)
(***************************************************************************)
EXTENDS Integers, Sequences, FiniteSets, TLC

VARIABLES nodes, edges, called, sorted, cyclic, components, code, errors,
          rawId, sanitized, sanitizedAgain,
          session, ui, dfs, kahn

vars == <<nodes, edges, called, sorted, cyclic, components, code, errors,
          rawId, sanitized, sanitizedAgain,
          session, ui, dfs, kahn>>

(***************************************************************************)
(* Bounds of the model.                                                    *)
(***************************************************************************)
\* longest edge array of the structural input family (edges between nodes)
MaxEdges == 3
\* longest edge array of the dangling input family (edges with any endpoints)
MaxDanglingEdges == 2
\* longest edge array of the wired input family (edges into named ports)
MaxWiredEdges == 2
\* longest edge array of the typed input family (nodes of many port types)
MaxTypedEdges == 2
\* longest node id given to generateNodeVarName on its own
MaxIdLen == 4

(***************************************************************************)
(* Generic helpers.                                                        *)
(***************************************************************************)
Range(s) == {s[i] : i \in 1..Len(s)}

\* Map.prototype.set on a Map modelled as a function over the keys present
MapSet(m, k, v) == [x \in (DOMAIN m) \cup {k} |-> IF x = k THEN v ELSE m[x]]

\* Set.prototype.add on an insertion-ordered Set
SetAdd(s, x) == IF x \in Range(s) THEN s ELSE Append(s, x)

\* all sequences over S of length at most n
SeqsUpTo(S, n) == UNION {[1..k -> S] : k \in 0..n}

\* all duplicate-free sequences over S
DistinctSeqs(S) ==
    {s \in SeqsUpTo(S, Cardinality(S)) :
        \A i, j \in 1..Len(s) : i # j => s[i] # s[j]}

(***************************************************************************)
(* Node metadata (core/nodes/registry.ts) and graph inputs.                *)
(***************************************************************************)
StringsLowercase ==
    [id |-> "Strings.Lowercase", category |-> "Strings",
     inputs |-> <<[id |-> "in", label |-> "String", type |-> "string", required |-> TRUE]>>,
     outputs |-> <<[id |-> "out"]>>,
     tlangType |-> "Strings.Lowercase"]

NumbersAdd ==
    [id |-> "Numbers.Add", category |-> "Numbers",
     inputs |-> <<[id |-> "a", label |-> "A", type |-> "number", required |-> TRUE],
                  [id |-> "b", label |-> "B", type |-> "number", required |-> TRUE]>>,
     outputs |-> <<[id |-> "sum"]>>,
     tlangType |-> "Numbers.Add"]

ObjectsPartial ==
    [id |-> "Objects.Partial", category |-> "Objects",
     inputs |-> <<[id |-> "in", label |-> "Object", type |-> "object", required |-> TRUE]>>,
     outputs |-> <<[id |-> "out"]>>,
     tlangType |-> "Partial"]

ObjectsRequired ==
    [id |-> "Objects.Required", category |-> "Objects",
     inputs |-> <<[id |-> "in", label |-> "Object", type |-> "object", required |-> TRUE]>>,
     outputs |-> <<[id |-> "out"]>>,
     tlangType |-> "Required"]

\* a node type outside the registry (a project file embeds the metadata of its
\* nodes): ports of the remaining port types, one of them not required, no
\* output port, a type text with a nested generic argument
ObjectsMapKeys ==
    [id |-> "Objects.MapKeys", category |-> "Objects",
     inputs |-> <<[id |-> "s", label |-> "S", type |-> "string", required |-> TRUE],
                  [id |-> "flag", label |-> "Flag", type |-> "boolean", required |-> TRUE],
                  [id |-> "list", label |-> "List", type |-> "array", required |-> TRUE],
                  [id |-> "any", label |-> "Any", type |-> "any", required |-> TRUE],
                  [id |-> "opt", label |-> "Opt", type |-> "number", required |-> FALSE]>>,
     outputs |-> <<>>,
     tlangType |-> "Objects.MapKeys<Strings.CamelCase>"]

\* a node type outside the registry whose type text has a string-literal
\* argument with a dot in it
PickUserName ==
    [id |-> "Pick", category |-> "Objects",
     inputs |-> <<[id |-> "in", label |-> "Object", type |-> "object", required |-> TRUE]>>,
     outputs |-> <<[id |-> "out"]>>,
     tlangType |-> "Pick<'user.name'>"]

\* node.data.inputs, in key insertion order; absent or {}: no key is present
NoInputs == <<>>

\* a stored input value, with its JavaScript typeof
NumberValue(n) == [type |-> "number", val |-> n]
StringValue(t) == [type |-> "string", val |-> t]
BooleanValue(b) == [type |-> "boolean", val |-> b]

\* a GraphNode: id, data.label, data.metadata, data.inputs
GraphNode(id, metadata, inputs) ==
    [id |-> id, label |-> metadata.id, metadata |-> metadata, inputs |-> inputs]

\* a GraphEdge; an absent handle is the empty (falsy) string
GraphEdge(source, target, sourceHandle, targetHandle) ==
    [source |-> source, target |-> target,
     sourceHandle |-> sourceHandle, targetHandle |-> targetHandle]

\* raw node ids, as character sequences: n1, a-b, a_b
NodeIds == { <<"n", "1">>, <<"a", "-", "b">>, <<"a", "_", "b">> }

\* the ids of a node array
IdsOf(ns) == {ns[i].id : i \in 1..Len(ns)}

\* node arrays of the structural and dangling families: any order of any
\* distinct ids
PlainNodeArrays ==
    {[i \in 1..Len(s) |-> GraphNode(s[i], StringsLowercase, NoInputs)] :
        s \in DistinctSeqs(NodeIds)}

\* edges with endpoints in ids, the source handle set and the target handle
\* absent; with ids the node ids this is the editor's edge invariant, with
\* another set an edge may dangle
PlainEdges(ids) == {GraphEdge(s, t, "out", "") : s \in ids, t \in ids}

\* the ids of the wired family: n1, a-b
WiredNodeIds == { <<"n", "1">>, <<"a", "-", "b">> }

\* node configurations of the wired family
WiredConfigs ==
    { [metadata |-> StringsLowercase, inputs |-> NoInputs],
      [metadata |-> NumbersAdd, inputs |-> NoInputs],
      [metadata |-> NumbersAdd, inputs |-> <<[id |-> "a", value |-> NumberValue(5)],
                                             [id |-> "b", value |-> NumberValue(7)]>>] }

WiredNodeArrays ==
    UNION { {[i \in 1..Len(s) |-> GraphNode(s[i], c[i].metadata, c[i].inputs)] :
                c \in [1..Len(s) -> WiredConfigs]} : s \in DistinctSeqs(WiredNodeIds) }

\* edges of the wired family: into port a or b, the source handle absent
WiredEdges ==
    {GraphEdge(s, t, "", th) : s \in WiredNodeIds, t \in WiredNodeIds, th \in {"a", "b"}}

\* node configurations of the typed family: every port type, a value stored
\* for a port that is not required, numbers at and beyond the safe limit
TypedConfigs ==
    { [metadata |-> ObjectsPartial, inputs |-> NoInputs],
      [metadata |-> ObjectsRequired, inputs |-> NoInputs],
      [metadata |-> PickUserName, inputs |-> NoInputs],
      [metadata |-> ObjectsMapKeys, inputs |-> NoInputs],
      [metadata |-> ObjectsMapKeys, inputs |-> <<[id |-> "opt", value |-> NumberValue(150)],
                                                 [id |-> "s", value |-> StringValue("hi")]>>],
      [metadata |-> NumbersAdd, inputs |-> <<[id |-> "a", value |-> NumberValue(100)],
                                             [id |-> "b", value |-> NumberValue(-100)]>>],
      [metadata |-> NumbersAdd, inputs |-> <<[id |-> "a", value |-> NumberValue(101)],
                                             [id |-> "b", value |-> NumberValue(-101)]>>],
      [metadata |-> NumbersAdd, inputs |-> <<[id |-> "a", value |-> StringValue("150")],
                                             [id |-> "b", value |-> NumberValue(150)]>>] }

\* node arrays of the typed family: n1 alone, or n1 followed by a-b
TypedNodeArrays ==
    {<<GraphNode(<<"n", "1">>, c.metadata, c.inputs)>> : c \in TypedConfigs}
      \cup {<<GraphNode(<<"n", "1">>, c.metadata, c.inputs),
              GraphNode(<<"a", "-", "b">>, d.metadata, d.inputs)>> :
                c \in TypedConfigs, d \in TypedConfigs}

\* edges of the typed family: two edges from n1 into port a of a-b that differ
\* in their source handle, and an edge back from a-b into the default port
TypedEdges ==
    { GraphEdge(<<"n", "1">>, <<"a", "-", "b">>, "", "a"),
      GraphEdge(<<"n", "1">>, <<"a", "-", "b">>, "alt", "a"),
      GraphEdge(<<"a", "-", "b">>, <<"n", "1">>, "", "") }

(***************************************************************************)
(* generateNodeVarName                                                     *)
(***************************************************************************)
Digits == {"0", "1", "2", "3", "4", "5", "6", "7", "8", "9"}

Letters ==
    {"a", "b", "c", "d", "e", "f", "g", "h", "i", "j", "k", "l", "m",
     "n", "o", "p", "q", "r", "s", "t", "u", "v", "w", "x", "y", "z",
     "A", "B", "C", "D", "E", "F", "G", "H", "I", "J", "K", "L", "M",
     "N", "O", "P", "Q", "R", "S", "T", "U", "V", "W", "X", "Y", "Z"}

\* characters String.prototype.trim removes (those the model's alphabet has)
Whitespace == {" ", "\t", "\n"}

\* nodeId.replace(/[^a-zA-Z0-9]/g, '_')
ReplaceInvalid(s) ==
    [i \in 1..Len(s) |-> IF s[i] \in Letters \cup Digits THEN s[i] ELSE "_"]

\* MergeUnderscores that leaves runs of underscores as they are
MergeUnderscores_Keep(s) == s

\* varName.replace(/_+/g, '_')
RECURSIVE MergeUnderscores(_)
MergeUnderscores(s) ==
    IF Len(s) <= 1 THEN s
    ELSE IF s[1] = "_" /\ s[2] = "_" THEN MergeUnderscores(Tail(s))
         ELSE <<s[1]>> \o MergeUnderscores(Tail(s))

\* if (/^[0-9]/.test(varName)) varName = '_' + varName
PrefixDigit(s) == IF s # <<>> /\ s[1] \in Digits THEN <<"_">> \o s ELSE s

\* varName.replace(/_+$/, '')
RECURSIVE StripTrailing(_)
StripTrailing(s) ==
    IF s # <<>> /\ s[Len(s)] = "_" THEN StripTrailing(SubSeq(s, 1, Len(s) - 1)) ELSE s

EmptyNodeName == <<"_", "e", "m", "p", "t", "y", "_", "n", "o", "d", "e">>
FallbackNodeName == <<"_", "n", "o", "d", "e">>

generateNodeVarName(nodeId) ==
    IF \A i \in 1..Len(nodeId) : nodeId[i] \in Whitespace THEN EmptyNodeName
    ELSE LET varName == StripTrailing(PrefixDigit(MergeUnderscores(ReplaceInvalid(nodeId))))
         IN  IF varName = <<>> THEN FallbackNodeName ELSE varName

(***************************************************************************)
(* findEntryNodes                                                          *)
(***************************************************************************)
findEntryNodes(ns, es) ==
    LET nodesWithIncomingEdges == {es[i].target : i \in 1..Len(es)}
        Keep(n) == n.id \notin nodesWithIncomingEdges
    IN  SelectSeq(ns, Keep)

(***************************************************************************)
(* topologicalSort (Kahn's algorithm)                                      *)
(***************************************************************************)
\* nodeMap.get(nodeId): the nodes found under that id (none for a dangling id)
NodeOfId(ns, nodeId) ==
    LET found == {i \in 1..Len(ns) : ns[i].id = nodeId}
    IN  IF found = {} THEN <<>>
        ELSE <<ns[CHOOSE i \in found : \A j \in found : j <= i]>>

\* inDegree.get(k) || 0
DegreeOrZero(inDegree, k) == IF k \in DOMAIN inDegree THEN inDegree[k] ELSE 0

\* edges.forEach: adjacency.get(source)?.push(target); inDegree.set(target, ...+1)
RECURSIVE TsBuild(_, _, _)
TsBuild(es, adjacency, inDegree) ==
    IF es = <<>> THEN [adjacency |-> adjacency, inDegree |-> inDegree]
    ELSE LET edge == Head(es)
             adj2 == IF edge.source \in DOMAIN adjacency
                     THEN [adjacency EXCEPT ![edge.source] = Append(@, edge.target)]
                     ELSE adjacency
             deg2 == MapSet(inDegree, edge.target, DegreeOrZero(inDegree, edge.target) + 1)
         IN  TsBuild(Tail(es), adj2, deg2)

\* TsRelax with the zero test lost: every decremented successor is enqueued
RECURSIVE TsRelax_NoZeroTest(_, _, _)
TsRelax_NoZeroTest(neighbors, inDegree, queue) ==
    IF neighbors = <<>> THEN [inDegree |-> inDegree, queue |-> queue]
    ELSE LET neighborId == Head(neighbors)
             degree == DegreeOrZero(inDegree, neighborId)
         IN  TsRelax_NoZeroTest(Tail(neighbors),
                                MapSet(inDegree, neighborId, degree - 1),
                                Append(queue, neighborId))

\* adjacency.get(nodeId)?.forEach(neighborId => ...): decrement, enqueue at zero
RECURSIVE TsRelax(_, _, _)
TsRelax(neighbors, inDegree, queue) ==
    IF neighbors = <<>> THEN [inDegree |-> inDegree, queue |-> queue]
    ELSE LET neighborId == Head(neighbors)
             degree == DegreeOrZero(inDegree, neighborId)
             deg2 == MapSet(inDegree, neighborId, degree - 1)
             q2 == IF degree - 1 = 0 THEN Append(queue, neighborId) ELSE queue
         IN  TsRelax(Tail(neighbors), deg2, q2)

\* while (queue.length > 0) { shift, push to sorted, relax successors }
RECURSIVE TsLoop(_, _, _, _, _)
TsLoop(ns, adjacency, inDegree, queue, out) ==
    IF queue = <<>> THEN out
    ELSE LET nodeId == Head(queue)
             \* const node = nodeMap.get(nodeId); if (node) sorted.push(node)
             out2 == out \o NodeOfId(ns, nodeId)
             r == IF nodeId \in DOMAIN adjacency
                  THEN TsRelax(adjacency[nodeId], inDegree, Tail(queue))
                  ELSE [inDegree |-> inDegree, queue |-> Tail(queue)]
         IN  TsLoop(ns, adjacency, r.inDegree, r.queue, out2)

\* the queue seeded with every node, whatever its in-degree
TsSeed_All(ns, inDegree) == [i \in 1..Len(ns) |-> ns[i].id]

\* the queue seeded with the zero in-degree nodes in node-array order
TsSeed(ns, inDegree) ==
    LET Zero(n) == inDegree[n.id] = 0
        z == SelectSeq(ns, Zero)
    IN  [i \in 1..Len(z) |-> z[i].id]

topologicalSort(ns, es) ==
    LET ids == {ns[i].id : i \in 1..Len(ns)}
        b == TsBuild(es, [k \in ids |-> <<>>], [k \in ids |-> 0])
    IN  TsLoop(ns, b.adjacency, b.inDegree, TsSeed(ns, b.inDegree), <<>>)

(***************************************************************************)
(* hasCycle (depth-first search with a recursion stack)                    *)
(***************************************************************************)
\* edges.forEach(edge => adjacency.get(edge.source)?.push(edge.target))
RECURSIVE HcBuild(_, _)
HcBuild(es, adjacency) ==
    IF es = <<>> THEN adjacency
    ELSE LET edge == Head(es)
         IN  HcBuild(Tail(es),
                     IF edge.source \in DOMAIN adjacency
                     THEN [adjacency EXCEPT ![edge.source] = Append(@, edge.target)]
                     ELSE adjacency)

\* dfs(nodeId); st = [visited, recursionStack, found]: found is the value returned
RECURSIVE HcDfs(_, _, _)
RECURSIVE HcNeighbors(_, _, _, _)
HcNeighbors(adjacency, nodeId, neighbors, st) ==
    IF neighbors = <<>>
    THEN [st EXCEPT !.recursionStack = @ \ {nodeId}, !.found = FALSE]
    ELSE LET neighbor == Head(neighbors)
         IN  IF neighbor \notin st.visited
             THEN LET r == HcDfs(adjacency, neighbor, st)
                  IN  IF r.found THEN r
                      ELSE HcNeighbors(adjacency, nodeId, Tail(neighbors), r)
             ELSE IF neighbor \in st.recursionStack
                  THEN [st EXCEPT !.found = TRUE]
                  ELSE HcNeighbors(adjacency, nodeId, Tail(neighbors), st)

HcDfs(adjacency, nodeId, st) ==
    LET st1 == [st EXCEPT !.visited = @ \cup {nodeId},
                          !.recursionStack = @ \cup {nodeId}]
        neighbors == IF nodeId \in DOMAIN adjacency THEN adjacency[nodeId] ELSE <<>>
    IN  HcNeighbors(adjacency, nodeId, neighbors, st1)

\* HcScan that searches from the first node only
HcScan_FirstOnly(adjacency, ns, st) ==
    IF ns = <<>> THEN FALSE ELSE HcDfs(adjacency, Head(ns).id, st).found

\* for (const node of nodes) if (!visited.has(node.id)) if (dfs(node.id)) return true
RECURSIVE HcScan(_, _, _)
HcScan(adjacency, ns, st) ==
    IF ns = <<>> THEN FALSE
    ELSE IF Head(ns).id \notin st.visited
         THEN LET r == HcDfs(adjacency, Head(ns).id, st)
              IN  IF r.found THEN TRUE ELSE HcScan(adjacency, Tail(ns), r)
         ELSE HcScan(adjacency, Tail(ns), st)

hasCycle(ns, es) ==
    LET ids == {ns[i].id : i \in 1..Len(ns)}
        adjacency == HcBuild(es, [k \in ids |-> <<>>])
    IN  HcScan(adjacency, ns, [visited |-> {}, recursionStack |-> {}, found |-> FALSE])

(***************************************************************************)
(* findConnectedComponents (undirected depth-first search)                 *)
(***************************************************************************)
\* CcBuild that registers each edge in its own direction only
RECURSIVE CcBuild_Directed(_, _)
CcBuild_Directed(es, adjacency) ==
    IF es = <<>> THEN adjacency
    ELSE LET edge == Head(es)
         IN  CcBuild_Directed(Tail(es),
                 IF edge.source \in DOMAIN adjacency
                 THEN [adjacency EXCEPT ![edge.source] = SetAdd(@, edge.target)]
                 ELSE adjacency)

\* edges.forEach: adjacency.get(source)?.add(target); adjacency.get(target)?.add(source)
RECURSIVE CcBuild(_, _)
CcBuild(es, adjacency) ==
    IF es = <<>> THEN adjacency
    ELSE LET edge == Head(es)
             adj1 == IF edge.source \in DOMAIN adjacency
                     THEN [adjacency EXCEPT ![edge.source] = SetAdd(@, edge.target)]
                     ELSE adjacency
             adj2 == IF edge.target \in DOMAIN adj1
                     THEN [adj1 EXCEPT ![edge.target] = SetAdd(@, edge.source)]
                     ELSE adj1
         IN  CcBuild(Tail(es), adj2)

\* dfs(nodeId, component); st = [visited, component]
RECURSIVE CcDfs(_, _, _, _)
RECURSIVE CcNeighbors(_, _, _, _)
CcNeighbors(ns, adjacency, neighbors, st) ==
    IF neighbors = <<>> THEN st
    ELSE CcNeighbors(ns, adjacency, Tail(neighbors),
                     CcDfs(ns, adjacency, Head(neighbors), st))

CcDfs(ns, adjacency, nodeId, st) ==
    IF nodeId \in st.visited THEN st
    ELSE LET st1 == [visited |-> st.visited \cup {nodeId},
                     component |-> st.component \o NodeOfId(ns, nodeId)]
             neighbors == IF nodeId \in DOMAIN adjacency THEN adjacency[nodeId] ELSE <<>>
         IN  CcNeighbors(ns, adjacency, neighbors, st1)

\* CcScan that drops the visited set of each search
RECURSIVE CcScan_ForgetVisited(_, _, _, _, _)
CcScan_ForgetVisited(ns, adjacency, rest, visited, comps) ==
    IF rest = <<>> THEN comps
    ELSE LET r == CcDfs(ns, adjacency, Head(rest).id,
                        [visited |-> visited, component |-> <<>>])
         IN  CcScan_ForgetVisited(ns, adjacency, Tail(rest), visited,
                                  Append(comps, r.component))

\* CcScan that puts each new component in front of the earlier ones
RECURSIVE CcScan_Unshift(_, _, _, _, _)
CcScan_Unshift(ns, adjacency, rest, visited, comps) ==
    IF rest = <<>> THEN comps
    ELSE IF Head(rest).id \notin visited
         THEN LET r == CcDfs(ns, adjacency, Head(rest).id,
                             [visited |-> visited, component |-> <<>>])
              IN  CcScan_Unshift(ns, adjacency, Tail(rest), r.visited,
                                 <<r.component>> \o comps)
         ELSE CcScan_Unshift(ns, adjacency, Tail(rest), visited, comps)

\* nodes.forEach(node => if (!visited.has(node.id)) { dfs; push if non-empty })
RECURSIVE CcScan(_, _, _, _, _)
CcScan(ns, adjacency, rest, visited, comps) ==
    IF rest = <<>> THEN comps
    ELSE IF Head(rest).id \notin visited
         THEN LET r == CcDfs(ns, adjacency, Head(rest).id,
                             [visited |-> visited, component |-> <<>>])
              IN  CcScan(ns, adjacency, Tail(rest), r.visited,
                         IF Len(r.component) > 0 THEN Append(comps, r.component) ELSE comps)
         ELSE CcScan(ns, adjacency, Tail(rest), visited, comps)

findConnectedComponents(ns, es) ==
    IF Len(ns) = 0 THEN <<>>
    ELSE LET ids == {ns[i].id : i \in 1..Len(ns)}
             adjacency == CcBuild(es, [k \in ids |-> <<>>])
         IN  CcScan(ns, adjacency, ns, {}, <<>>)

\* componentEdges without the filter: every block gets all edges
componentEdges_Unfiltered(componentNodes, allEdges) == allEdges

\* generateComponentCode: the edges that belong to the component
componentEdges(componentNodes, allEdges) ==
    LET nodeIds == {componentNodes[i].id : i \in 1..Len(componentNodes)}
        Keep(edge) == edge.source \in nodeIds /\ edge.target \in nodeIds
    IN  SelectSeq(allEdges, Keep)

(***************************************************************************)
(* extractImports.  The TypeScript parser is a library: ParsedTypeRefs     *)
(* gives, for each type text the model uses, the entity names of the       *)
(* TypeReference nodes the parser finds in it, each as its chain of        *)
(* identifiers from the root.                                              *)
(***************************************************************************)
ParsedTypeRefs(typeStr) ==
    CASE typeStr = "Strings.Lowercase" -> << <<"Strings", "Lowercase">> >>
      [] typeStr = "Numbers.Add" -> << <<"Numbers", "Add">> >>
      [] typeStr = "Partial" -> << <<"Partial">> >>
      [] typeStr = "Required" -> << <<"Required">> >>
      [] typeStr = "Pick<'user.name'>" -> << <<"Pick">> >>
      [] typeStr = "Objects.MapKeys<Strings.CamelCase>" ->
            << <<"Objects", "MapKeys">>, <<"Strings", "CamelCase">> >>
      [] OTHER -> <<>>

\* TLANG_TOP_LEVEL_EXPORTS (generated/tlangSources)
TLANG_TOP_LEVEL_EXPORTS == {"Pick", "Omit", "Partial", "Required"}

\* visit(), over the type references in the order the traversal meets them: a
\* qualified name adds its root namespace, a known identifier itself
RECURSIVE VisitRefs(_, _)
VisitRefs(refs, found) ==
    IF refs = <<>> THEN found
    ELSE LET typeName == Head(refs)
         IN  VisitRefs(Tail(refs),
                IF Len(typeName) > 1
                THEN [found EXCEPT !.namespaces = SetAdd(@, typeName[1])]
                ELSE IF typeName[1] \in TLANG_TOP_LEVEL_EXPORTS
                     THEN [found EXCEPT !.topLevelTypes = SetAdd(@, typeName[1])]
                     ELSE found)

extractImportsFromType(typeStr, found) == VisitRefs(ParsedTypeRefs(typeStr), found)

\* nodes.forEach(node => extractImportsFromType(node.data.metadata.tlangType, ...))
RECURSIVE extractImports(_)
extractImports(ns) ==
    IF ns = <<>> THEN [namespaces |-> <<>>, topLevelTypes |-> <<>>]
    ELSE extractImportsFromType(ns[Len(ns)].metadata.tlangType,
                                extractImports(SubSeq(ns, 1, Len(ns) - 1)))

\* the names the model uses, in the order Array.prototype.sort gives them
SortedNames ==
    <<"Numbers", "Objects", "Omit", "Partial", "Pick", "Required", "Strings">>

\* SortNames that leaves the names in the order of their discovery
SortNames_Unsorted(names) == names

\* Array.from(set).sort()
SortNames(names) ==
    LET Keep(x) == x \in Range(names)
    IN  SelectSeq(SortedNames, Keep)

\* generateTLangCode, step 1: the names of the import statement
importedTypes(ns) ==
    LET imp == extractImports(ns)
    IN  <<"TypeFlow", "Exec", "Out">>
            \o SortNames(imp.topLevelTypes) \o SortNames(imp.namespaces)

(***************************************************************************)
(* collectNodeInputs, getDefaultValueForType                               *)
(***************************************************************************)
getDefaultValueForType(portType) ==
    CASE portType = "string" -> StringValue("hello_world")
      [] portType = "number" -> NumberValue(42)
      [] portType = "boolean" -> BooleanValue(TRUE)
      [] portType = "object" -> [type |-> "object", val |-> [id |-> 1, name |-> "example"]]
      [] portType = "array" -> [type |-> "array", val |-> <<1, 2, 3>>]
      [] OTHER -> [type |-> "null", val |-> "null"]

\* node.data.inputs?.[inputId] !== undefined
HasInputValue(node, inputId) ==
    \E i \in 1..Len(node.inputs) : node.inputs[i].id = inputId

\* node.data.inputs?.[inputId]
InputValue(node, inputId) ==
    node.inputs[CHOOSE i \in 1..Len(node.inputs) : node.inputs[i].id = inputId].value

\* collectNodeInputs without the test of the required flag
collectNodeInputs_AllPorts(node) ==
    [i \in 1..Len(node.metadata.inputs) |->
        [id |-> node.metadata.inputs[i].id,
         value |-> IF HasInputValue(node, node.metadata.inputs[i].id)
                   THEN InputValue(node, node.metadata.inputs[i].id)
                   ELSE getDefaultValueForType(node.metadata.inputs[i].type)]]

\* metadata.inputs.forEach(input => if (input.required) inputs[input.id] = ...)
collectNodeInputs(node) ==
    LET Required(input) == input.required
        req == SelectSeq(node.metadata.inputs, Required)
    IN  [i \in 1..Len(req) |->
            [id |-> req[i].id,
             value |-> IF HasInputValue(node, req[i].id)
                       THEN InputValue(node, req[i].id)
                       ELSE getDefaultValueForType(req[i].type)]]

\* JSON.stringify of a stored value, as the tokens of its text
JSONStringify(value) ==
    CASE value.type = "string" -> <<"\"", value.val, "\"">>
      [] value.type = "number" -> <<ToString(value.val)>>
      [] value.type = "boolean" -> <<IF value.val THEN "true" ELSE "false">>
      [] OTHER -> <<"json", value.val>>

(***************************************************************************)
(* buildInputConnectionsMap                                                *)
(***************************************************************************)
\* handle || fallback
HandleOr(handle, fallback) == IF handle = "" THEN fallback ELSE handle

EmptyMap == [k \in {} |-> 0]

\* buildInputConnectionsMap that keeps the first edge of a port, not the last
RECURSIVE buildInputConnectionsMap_FirstWins(_)
buildInputConnectionsMap_FirstWins(es) ==
    IF es = <<>> THEN EmptyMap
    ELSE LET edge == es[Len(es)]
             map == buildInputConnectionsMap_FirstWins(SubSeq(es, 1, Len(es) - 1))
             ports == IF edge.target \in DOMAIN map THEN map[edge.target] ELSE EmptyMap
             targetPort == HandleOr(edge.targetHandle, "in")
             sourcePort == HandleOr(edge.sourceHandle, "out")
         IN  IF targetPort \in DOMAIN ports THEN map
             ELSE MapSet(map, edge.target,
                         MapSet(ports, targetPort,
                                [sourceNode |-> edge.source, sourcePort |-> sourcePort]))

\* edges.forEach(edge => map.get(edge.target).set(targetPort, {sourceNode, sourcePort}))
RECURSIVE buildInputConnectionsMap(_)
buildInputConnectionsMap(es) ==
    IF es = <<>> THEN EmptyMap
    ELSE LET edge == es[Len(es)]
             map == buildInputConnectionsMap(SubSeq(es, 1, Len(es) - 1))
             ports == IF edge.target \in DOMAIN map THEN map[edge.target] ELSE EmptyMap
             targetPort == HandleOr(edge.targetHandle, "in")
             sourcePort == HandleOr(edge.sourceHandle, "out")
         IN  MapSet(map, edge.target,
                    MapSet(ports, targetPort,
                           [sourceNode |-> edge.source, sourcePort |-> sourcePort]))

(***************************************************************************)
(* generateExecutionCode                                                   *)
(***************************************************************************)
\* the part pushed for one declared input port (none when the port is skipped)
InputPart(node, input, inputConnections) ==
    LET connected == /\ node.id \in DOMAIN inputConnections
                     /\ input.id \in DOMAIN inputConnections[node.id]
    IN  IF connected
        THEN LET connection == inputConnections[node.id][input.id]
             IN  <<[port |-> input.id, kind |-> "out",
                    sourceVar |-> generateNodeVarName(connection.sourceNode),
                    sourcePort |-> connection.sourcePort]>>
        ELSE IF HasInputValue(node, input.id)
             THEN <<[port |-> input.id, kind |-> "literal",
                     text |-> JSONStringify(InputValue(node, input.id))]>>
             ELSE <<>>

RECURSIVE InputParts(_, _, _)
InputParts(node, inputs, inputConnections) ==
    IF inputs = <<>> THEN <<>>
    ELSE InputPart(node, Head(inputs), inputConnections)
            \o InputParts(node, Tail(inputs), inputConnections)

\* type ${varName} = Exec<${tlangType}, ${inputsStr}>
ExecStatement(node, inputConnections) ==
    [varName |-> generateNodeVarName(node.id),
     tlangType |-> node.metadata.tlangType,
     inputParts |-> InputParts(node, node.metadata.inputs, inputConnections)]

\* the statements without those whose name an earlier statement binds
RECURSIVE DropRebound(_, _)
DropRebound(sts, seen) ==
    IF sts = <<>> THEN <<>>
    ELSE IF Head(sts).varName \in seen THEN DropRebound(Tail(sts), seen)
         ELSE <<Head(sts)>> \o DropRebound(Tail(sts), seen \cup {Head(sts).varName})

\* generateExecutionCode that emits no second statement for a name already bound
generateExecutionCode_SkipBound(ns, es) ==
    IF Len(ns) = 0 THEN <<>>
    ELSE LET sortedNodes == topologicalSort(ns, es)
             inputConnections == buildInputConnectionsMap(es)
         IN  DropRebound([i \in 1..Len(sortedNodes) |->
                             ExecStatement(sortedNodes[i], inputConnections)], {})

\* generateExecutionCode that emits the nodes in array order, unsorted
generateExecutionCode_Unsorted(ns, es) ==
    LET inputConnections == buildInputConnectionsMap(es)
    IN  [i \in 1..Len(ns) |-> ExecStatement(ns[i], inputConnections)]

generateExecutionCode(ns, es) ==
    IF Len(ns) = 0 THEN <<>>
    ELSE LET sortedNodes == topologicalSort(ns, es)
             inputConnections == buildInputConnectionsMap(es)
         IN  [i \in 1..Len(sortedNodes) |-> ExecStatement(sortedNodes[i], inputConnections)]

(***************************************************************************)
(* findResultExpression                                                    *)
(***************************************************************************)
Never == [kind |-> "never"]

OutOf(outputNode) ==
    [kind |-> "out",
     varName |-> generateNodeVarName(outputNode.id),
     outputPort |-> IF Len(outputNode.metadata.outputs) > 0
                    THEN HandleOr(outputNode.metadata.outputs[1].id, "out")
                    ELSE "out"]

\* findResultExpression that takes the last terminal node, not the first
findResultExpression_LastTerminal(ns, es) ==
    IF Len(ns) = 0 THEN Never
    ELSE LET nodesWithOutgoingEdges == {es[i].source : i \in 1..Len(es)}
             Terminal(n) == n.id \notin nodesWithOutgoingEdges
             terminalNodes == SelectSeq(ns, Terminal)
         IN  IF Len(terminalNodes) > 0 THEN OutOf(terminalNodes[Len(terminalNodes)])
             ELSE LET srt == topologicalSort(ns, es)
                  IN  IF Len(srt) = 0 THEN Never ELSE OutOf(srt[Len(srt)])

\* findResultExpression that gives up without a terminal node
findResultExpression_NoFallback(ns, es) ==
    IF Len(ns) = 0 THEN Never
    ELSE LET nodesWithOutgoingEdges == {es[i].source : i \in 1..Len(es)}
             Terminal(n) == n.id \notin nodesWithOutgoingEdges
             terminalNodes == SelectSeq(ns, Terminal)
         IN  IF Len(terminalNodes) > 0 THEN OutOf(terminalNodes[1]) ELSE Never

findResultExpression(ns, es) ==
    IF Len(ns) = 0 THEN Never
    ELSE LET nodesWithOutgoingEdges == {es[i].source : i \in 1..Len(es)}
             Terminal(n) == n.id \notin nodesWithOutgoingEdges
             terminalNodes == SelectSeq(ns, Terminal)
         IN  IF Len(terminalNodes) > 0 THEN OutOf(terminalNodes[1])
             ELSE LET srt == topologicalSort(ns, es)
                  IN  IF Len(srt) = 0 THEN Never ELSE OutOf(srt[Len(srt)])

(***************************************************************************)
(* generateComponentCode, generateTLangCode                                *)
(***************************************************************************)
generateComponentCode(componentNodes, allEdges, componentIndex) ==
    LET ces == componentEdges(componentNodes, allEdges)
        entryNodes == findEntryNodes(componentNodes, ces)
    IN  [typeflowName |-> <<"TypeFlow", componentIndex + 1>>,
         nodeDefinitions |->
            [i \in 1..Len(componentNodes) |->
                [varName |-> generateNodeVarName(componentNodes[i].id),
                 tlangType |-> componentNodes[i].metadata.tlangType]],
         connections |->
            [i \in 1..Len(ces) |->
                [fromNode |-> generateNodeVarName(ces[i].source),
                 fromPort |-> HandleOr(ces[i].sourceHandle, "out"),
                 toNode |-> generateNodeVarName(ces[i].target),
                 toPort |-> HandleOr(ces[i].targetHandle, "in")]],
         initialData |->
            [i \in 1..Len(entryNodes) |->
                [varName |-> generateNodeVarName(entryNodes[i].id),
                 inputs |-> collectNodeInputs(entryNodes[i])]],
         executionCode |-> generateExecutionCode(componentNodes, ces),
         resultTypeName |-> <<"Result", componentIndex + 1>>,
         resultExpr |-> findResultExpression(componentNodes, ces)]

Placeholder == [kind |-> "placeholder"]

\* mainResultType that builds the tuple also for a single component
mainResultType_AlwaysTuple(comps) ==
    [tuple |-> TRUE, of |-> [i \in 1..Len(comps) |-> <<"Result", i>>]]

\* type Result = Result_1, or the tuple [Result_1, ..., Result_n]
mainResultType(comps) ==
    IF Len(comps) = 1
    THEN [tuple |-> FALSE, of |-> << <<"Result", 1>> >>]
    ELSE [tuple |-> TRUE, of |-> [i \in 1..Len(comps) |-> <<"Result", i>>]]

\* generateTLangCode that emits no text for a graph with a cycle
generateTLangCode_Gated(ns, es) ==
    IF Len(ns) = 0 THEN Placeholder
    ELSE IF hasCycle(ns, es) THEN [kind |-> "error"]
    ELSE LET comps == findConnectedComponents(ns, es)
         IN  [kind |-> "code",
              imports |-> importedTypes(ns),
              summary |-> IF Len(comps) = 1 THEN <<>> ELSE <<Len(comps)>>,
              componentCodes |->
                 [i \in 1..Len(comps) |-> generateComponentCode(comps[i], es, i - 1)],
              mainResultType |-> mainResultType(comps)]

\* generateTLangCode without the test for the empty node array
generateTLangCode_NoShortCircuit(ns, es) ==
    LET comps == findConnectedComponents(ns, es)
    IN  [kind |-> "code",
         imports |-> importedTypes(ns),
         summary |-> IF Len(comps) = 1 THEN <<>> ELSE <<Len(comps)>>,
         componentCodes |->
            [i \in 1..Len(comps) |-> generateComponentCode(comps[i], es, i - 1)],
         mainResultType |-> mainResultType(comps)]

\* generateTLangCode that numbers the components with a counter kept across
\* invocations (the number of earlier invocations is added to the index)
generateTLangCode_Numbered(ns, es) ==
    IF Len(ns) = 0 THEN Placeholder
    ELSE LET comps == findConnectedComponents(ns, es)
             isSingleComponent == Len(comps) = 1
             base == Len(session.log)
         IN  [kind |-> "code",
              imports |-> importedTypes(ns),
              summary |-> IF isSingleComponent THEN <<>> ELSE <<Len(comps)>>,
              componentCodes |->
                 [i \in 1..Len(comps) |->
                     generateComponentCode(comps[i], es, base + i - 1)],
              mainResultType |-> mainResultType(comps)]

generateTLangCode(ns, es) ==
    IF Len(ns) = 0 THEN Placeholder
    ELSE LET comps == findConnectedComponents(ns, es)
             isSingleComponent == Len(comps) = 1
         IN  [kind |-> "code",
              imports |-> importedTypes(ns),
              summary |-> IF isSingleComponent THEN <<>> ELSE <<Len(comps)>>,
              componentCodes |->
                 [i \in 1..Len(comps) |-> generateComponentCode(comps[i], es, i - 1)],
              mainResultType |-> mainResultType(comps)]

(***************************************************************************)
(* validateGraph                                                           *)
(***************************************************************************)
MAX_SAFE_NUMBER == 100

Abs(n) == IF n < 0 THEN -n ELSE n

CycleError == [kind |-> "cycle"]

\* MissingInputErrors without the entry-node test
MissingInputErrors_NoEntryTest(node, inputConnections, entryNodeIds) ==
    LET Missing(input) ==
            /\ input.required
            /\ ~(/\ node.id \in DOMAIN inputConnections
                 /\ input.id \in DOMAIN inputConnections[node.id])
        miss == SelectSeq(node.metadata.inputs, Missing)
    IN  [i \in 1..Len(miss) |->
            [kind |-> "missing", node |-> node.label, input |-> miss[i].label]]

\* requiredInputs.forEach: the messages for one node's unconnected required inputs
MissingInputErrors(node, inputConnections, entryNodeIds) ==
    LET Missing(input) ==
            /\ input.required
            /\ ~(/\ node.id \in DOMAIN inputConnections
                 /\ input.id \in DOMAIN inputConnections[node.id])
            /\ node.id \notin entryNodeIds
        miss == SelectSeq(node.metadata.inputs, Missing)
    IN  [i \in 1..Len(miss) |->
            [kind |-> "missing", node |-> node.label, input |-> miss[i].label]]

\* RangeErrors that also reports a value at the limit
RangeErrors_AtLimit(node) ==
    IF node.metadata.category = "Numbers"
    THEN LET TooLarge(e) == e.value.type = "number" /\ Abs(e.value.val) >= MAX_SAFE_NUMBER
             big == SelectSeq(node.inputs, TooLarge)
         IN  [i \in 1..Len(big) |->
                 [kind |-> "range", node |-> node.label,
                  inputId |-> big[i].id, value |-> big[i].value.val]]
    ELSE <<>>

\* Object.entries(node.data.inputs || {}).forEach: the out-of-range messages
RangeErrors(node) ==
    IF node.metadata.category = "Numbers"
    THEN LET TooLarge(e) == e.value.type = "number" /\ Abs(e.value.val) > MAX_SAFE_NUMBER
             big == SelectSeq(node.inputs, TooLarge)
         IN  [i \in 1..Len(big) |->
                 [kind |-> "range", node |-> node.label,
                  inputId |-> big[i].id, value |-> big[i].value.val]]
    ELSE <<>>

RECURSIVE NodeErrors(_, _, _)
NodeErrors(ns, inputConnections, entryNodeIds) ==
    IF ns = <<>> THEN <<>>
    ELSE MissingInputErrors(Head(ns), inputConnections, entryNodeIds)
            \o RangeErrors(Head(ns))
            \o NodeErrors(Tail(ns), inputConnections, entryNodeIds)

\* validateGraph that appends the cycle message after the node messages
validateGraph_CycleLast(ns, es) ==
    IF Len(ns) = 0 THEN <<>>
    ELSE LET entry == findEntryNodes(ns, es)
             entryNodeIds == {entry[i].id : i \in 1..Len(entry)}
         IN  NodeErrors(ns, buildInputConnectionsMap(es), entryNodeIds)
                \o (IF hasCycle(ns, es) THEN <<CycleError>> ELSE <<>>)

validateGraph(ns, es) ==
    IF Len(ns) = 0 THEN <<>>
    ELSE LET entry == findEntryNodes(ns, es)
             entryNodeIds == {entry[i].id : i \in 1..Len(entry)}
         IN  (IF hasCycle(ns, es) THEN <<CycleError>> ELSE <<>>)
                \o NodeErrors(ns, buildInputConnectionsMap(es), entryNodeIds)

(***************************************************************************)
(* State machine: a graph is drawn, then one entry point is applied to it. *)
(***************************************************************************)
NoCode == [kind |-> "none"]

\* the step-level machines below are not running
NoRun == [phase |-> "off"]

InitResults ==
    /\ called = "none"
    /\ sorted = <<>>
    /\ cyclic = FALSE
    /\ components = <<>>
    /\ code = NoCode
    /\ errors = <<>>
    /\ sanitized = <<>>
    /\ sanitizedAgain = <<>>

Init ==
    /\ \/ /\ nodes \in PlainNodeArrays
          /\ edges \in SeqsUpTo(PlainEdges(IdsOf(nodes)), MaxEdges)
       \/ /\ nodes \in PlainNodeArrays
          /\ edges \in SeqsUpTo(PlainEdges(NodeIds), MaxDanglingEdges)
       \/ /\ nodes \in WiredNodeArrays
          /\ edges \in SeqsUpTo(WiredEdges, MaxWiredEdges)
       \/ /\ nodes \in TypedNodeArrays
          /\ edges \in SeqsUpTo(TypedEdges, MaxTypedEdges)
    /\ rawId = <<>>
    /\ InitResults
    /\ session = NoRun
    /\ ui = NoRun
    /\ dfs = NoRun
    /\ kahn = NoRun

TopologicalSort ==
    /\ called = "none"
    /\ called' = "topologicalSort"
    /\ sorted' = topologicalSort(nodes, edges)
    /\ UNCHANGED <<nodes, edges, cyclic, components, code, errors,
                   rawId, sanitized, sanitizedAgain,
                   session, ui, dfs, kahn>>

HasCycle ==
    /\ called = "none"
    /\ called' = "hasCycle"
    /\ cyclic' = hasCycle(nodes, edges)
    /\ UNCHANGED <<nodes, edges, sorted, components, code, errors,
                   rawId, sanitized, sanitizedAgain,
                   session, ui, dfs, kahn>>

FindConnectedComponents ==
    /\ called = "none"
    /\ called' = "findConnectedComponents"
    /\ components' = findConnectedComponents(nodes, edges)
    /\ UNCHANGED <<nodes, edges, sorted, cyclic, code, errors,
                   rawId, sanitized, sanitizedAgain,
                   session, ui, dfs, kahn>>

GenerateTLangCode ==
    /\ called = "none"
    /\ called' = "generateTLangCode"
    /\ code' = generateTLangCode(nodes, edges)
    /\ components' = findConnectedComponents(nodes, edges)
    /\ UNCHANGED <<nodes, edges, sorted, cyclic, errors,
                   rawId, sanitized, sanitizedAgain,
                   session, ui, dfs, kahn>>

ValidateGraph ==
    /\ called = "none"
    /\ called' = "validateGraph"
    /\ errors' = validateGraph(nodes, edges)
    /\ UNCHANGED <<nodes, edges, sorted, cyclic, components, code,
                   rawId, sanitized, sanitizedAgain,
                   session, ui, dfs, kahn>>

Next ==
    \/ TopologicalSort
    \/ HasCycle
    \/ FindConnectedComponents
    \/ GenerateTLangCode
    \/ ValidateGraph

Spec == Init /\ [][Next]_vars

(***************************************************************************)
(* generateNodeVarName on its own: an id is drawn, the function is applied *)
(* to it, and then to its own result.                                      *)
(***************************************************************************)
\* the characters of the ids: letters, a digit, an underscore, a character
\* the function replaces, a blank
IdAlphabet == {"a", "Z", "1", "_", "-", " "}

InitSanitize ==
    /\ nodes = <<>>
    /\ edges = <<>>
    /\ rawId \in SeqsUpTo(IdAlphabet, MaxIdLen)
    /\ InitResults
    /\ session = NoRun
    /\ ui = NoRun
    /\ dfs = NoRun
    /\ kahn = NoRun

GenerateNodeVarName ==
    /\ called = "none"
    /\ called' = "generateNodeVarName"
    /\ sanitized' = generateNodeVarName(rawId)
    /\ UNCHANGED <<nodes, edges, sorted, cyclic, components, code, errors,
                   rawId, sanitizedAgain,
                   session, ui, dfs, kahn>>

GenerateNodeVarNameAgain ==
    /\ called = "generateNodeVarName"
    /\ called' = "generateNodeVarName again"
    /\ sanitizedAgain' = generateNodeVarName(sanitized)
    /\ UNCHANGED <<nodes, edges, sorted, cyclic, components, code, errors,
                   rawId, sanitized,
                   session, ui, dfs, kahn>>

NextSanitize ==
    \/ GenerateNodeVarName
    \/ GenerateNodeVarNameAgain

SpecSanitize == InitSanitize /\ [][NextSanitize]_vars

(***************************************************************************)
(* A session of the playground: generateTLangCode and validateGraph are    *)
(* invoked again and again, each time on any of a few graphs.  The module  *)
(* transformer.ts declares no variable outside its functions, so the only  *)
(* state that lasts from one invocation to the next is the session's log   *)
(* of what was passed and what was returned.                               *)
(***************************************************************************)
\* number of invocations in a session
MaxCalls == 3

\* the graphs of a session: the empty graph, one node, a two-node chain, a
\* two-node cycle of colliding names, two isolated nodes
SessionGraphs ==
    { [nodes |-> <<>>, edges |-> <<>>],
      [nodes |-> <<GraphNode(<<"n", "1">>, StringsLowercase, NoInputs)>>,
       edges |-> <<>>],
      [nodes |-> <<GraphNode(<<"n", "1">>, StringsLowercase, NoInputs),
                   GraphNode(<<"a", "-", "b">>, NumbersAdd, NoInputs)>>,
       edges |-> <<GraphEdge(<<"n", "1">>, <<"a", "-", "b">>, "", "a")>>],
      [nodes |-> <<GraphNode(<<"a", "-", "b">>, StringsLowercase, NoInputs),
                   GraphNode(<<"a", "_", "b">>, StringsLowercase, NoInputs)>>,
       edges |-> <<GraphEdge(<<"a", "-", "b">>, <<"a", "_", "b">>, "", ""),
                   GraphEdge(<<"a", "_", "b">>, <<"a", "-", "b">>, "", "")>>],
      [nodes |-> <<GraphNode(<<"n", "1">>, NumbersAdd, NoInputs),
                   GraphNode(<<"a", "-", "b">>, StringsLowercase, NoInputs)>>,
       edges |-> <<>>] }

InitSession ==
    /\ nodes = <<>>
    /\ edges = <<>>
    /\ rawId = <<>>
    /\ InitResults
    /\ session = [phase |-> "on", log |-> <<>>]
    /\ ui = NoRun
    /\ dfs = NoRun
    /\ kahn = NoRun

SessionGenerate ==
    /\ Len(session.log) < MaxCalls
    /\ \E g \in SessionGraphs :
          /\ nodes' = g.nodes
          /\ edges' = g.edges
          /\ code' = generateTLangCode(g.nodes, g.edges)
          /\ session' = [session EXCEPT !.log =
                            Append(@, [op |-> "generateTLangCode", nodes |-> g.nodes,
                                       edges |-> g.edges, returned |-> code'])]
    /\ called' = "generateTLangCode"
    /\ UNCHANGED <<sorted, cyclic, components, errors,
                   rawId, sanitized, sanitizedAgain, ui, dfs, kahn>>

SessionValidate ==
    /\ Len(session.log) < MaxCalls
    /\ \E g \in SessionGraphs :
          /\ nodes' = g.nodes
          /\ edges' = g.edges
          /\ errors' = validateGraph(g.nodes, g.edges)
          /\ session' = [session EXCEPT !.log =
                            Append(@, [op |-> "validateGraph", nodes |-> g.nodes,
                                       edges |-> g.edges, returned |-> errors'])]
    /\ called' = "validateGraph"
    /\ UNCHANGED <<sorted, cyclic, components, code,
                   rawId, sanitized, sanitizedAgain, ui, dfs, kahn>>

NextSession ==
    \/ SessionGenerate
    \/ SessionValidate

SpecSession == InitSession /\ [][NextSession]_vars

(***************************************************************************)
(* The editor (AppContent and ExecutionConsole): the graph is edited, the   *)
(* component renders, the Run button is clicked, the run settles.  Every   *)
(* handler ends with a render, which recomputes validationErrors from the  *)
(* current graph and the button's disabled attribute from it.              *)
(***************************************************************************)
\* number of runs started in the editor
MaxRuns == 3

\* a render that ignores the problem list for the button
Render_IgnoreErrors(ns, es, executing) ==
    LET validationErrors == validateGraph(ns, es)
    IN  [validationErrors |-> validationErrors,
         hasErrors |-> Len(validationErrors) > 0,
         disabled |-> executing]

\* const validationErrors = validateGraph(nodes, edges);
\* hasErrors={validationErrors.length > 0}; disabled={executing || hasErrors}
Render(ns, es, executing) ==
    LET validationErrors == validateGraph(ns, es)
        hasErrors == Len(validationErrors) > 0
    IN  [validationErrors |-> validationErrors,
         hasErrors |-> hasErrors,
         disabled |-> executing \/ hasErrors]

\* useNodesState([]), useEdgesState([]), useState(false), useState(null)
InitEditor ==
    /\ nodes = <<>>
    /\ edges = <<>>
    /\ rawId = <<>>
    /\ InitResults
    /\ ui = [phase |-> "on", executing |-> FALSE, executionResult |-> "null",
             runs |-> 0, running |-> "nothing", started |-> "never",
             view |-> Render(<<>>, <<>>, FALSE)]
    /\ session = NoRun
    /\ dfs = NoRun
    /\ kahn = NoRun

\* any edit of the canvas (drop, connect, delete, load an example, clear)
EditGraph ==
    /\ \E g \in SessionGraphs :
          /\ (g.nodes # nodes \/ g.edges # edges)
          /\ nodes' = g.nodes
          /\ edges' = g.edges
          /\ code' = generateTLangCode(g.nodes, g.edges)
          /\ errors' = validateGraph(g.nodes, g.edges)
          /\ ui' = [ui EXCEPT !.view = Render(g.nodes, g.edges, ui.executing)]
    /\ called' = "edit"
    /\ UNCHANGED <<sorted, cyclic, components,
                   rawId, sanitized, sanitizedAgain, session, dfs, kahn>>

\* a click on the Run button: a disabled button delivers no click
ClickRun ==
    /\ ~ui.view.disabled
    /\ ui.runs < MaxRuns
    /\ ui' = [ui EXCEPT !.executing = TRUE,
                        !.executionResult = "null",
                        !.runs = @ + 1,
                        !.running = generateTLangCode(nodes, edges),
                        !.started = [executing |-> ui.executing,
                                     validationErrors |-> validateGraph(nodes, edges)],
                        !.view = Render(nodes, edges, TRUE)]
    /\ called' = "handleRun"
    /\ UNCHANGED <<nodes, edges, sorted, cyclic, components, code, errors,
                   rawId, sanitized, sanitizedAgain, session, dfs, kahn>>

\* executeTypeScript settles (result or exception), then the finally block
RunSettles ==
    /\ ui.executing
    /\ \E outcome \in {"success", "failed"} :
          ui' = [ui EXCEPT !.executing = FALSE,
                           !.executionResult = outcome,
                           !.running = "nothing",
                           !.view = Render(nodes, edges, FALSE)]
    /\ called' = "settled"
    /\ UNCHANGED <<nodes, edges, sorted, cyclic, components, code, errors,
                   rawId, sanitized, sanitizedAgain, session, dfs, kahn>>

NextEditor ==
    \/ EditGraph
    \/ ClickRun
    \/ RunSettles

SpecEditor == InitEditor /\ [][NextEditor]_vars

(***************************************************************************)
(* hasCycle step by step: the for loop over the nodes, the calls of dfs    *)
(* (one frame per call: the node and the neighbours not yet looked at),    *)
(* the sets visited and recursionStack.  The trace records what each step  *)
(* did.                                                                    *)
(***************************************************************************)
\* longest edge array of the graphs searched step by step
MaxSearchEdges == 2

InitHasCycle ==
    /\ nodes \in PlainNodeArrays
    /\ edges \in SeqsUpTo(PlainEdges(NodeIds), MaxSearchEdges)
    /\ rawId = <<>>
    /\ InitResults
    /\ dfs = [phase |-> "on",
              adjacency |-> HcBuild(edges, [k \in IdsOf(nodes) |-> <<>>]),
              visited |-> {},
              recursionStack |-> {},
              frames |-> <<>>,
              scan |-> [i \in 1..Len(nodes) |-> nodes[i].id],
              result |-> "running",
              trace |-> <<>>]
    /\ session = NoRun
    /\ ui = NoRun
    /\ kahn = NoRun

\* dfs(nodeId) is entered: visited.add, recursionStack.add, neighbours fetched
DfsEnter(d, nodeId) ==
    [d EXCEPT !.visited = @ \cup {nodeId},
              !.recursionStack = @ \cup {nodeId},
              !.frames = Append(@, [nodeId |-> nodeId,
                                    neighbors |-> IF nodeId \in DOMAIN d.adjacency
                                                  THEN d.adjacency[nodeId] ELSE <<>>]),
              !.trace = Append(@, <<"enter", nodeId>>)]

\* the frame on top with its first neighbour taken off
DfsAdvance(d) ==
    [d EXCEPT !.frames[Len(d.frames)].neighbors = Tail(@)]

DfsUnchanged ==
    UNCHANGED <<nodes, edges, sorted, components, code, errors,
                rawId, sanitized, sanitizedAgain, session, ui, kahn>>

DfsRunning == dfs.phase = "on" /\ dfs.result = "running"

\* for (const node of nodes): node not visited, dfs(node.id) is called
ScanVisit ==
    /\ DfsRunning /\ dfs.frames = <<>> /\ dfs.scan # <<>>
    /\ Head(dfs.scan) \notin dfs.visited
    /\ dfs' = DfsEnter([dfs EXCEPT !.scan = Tail(@)], Head(dfs.scan))
    /\ called' = "hasCycle: dfs"
    /\ UNCHANGED cyclic
    /\ DfsUnchanged

\* for (const node of nodes): node visited by an earlier dfs, nothing to do
ScanSkip ==
    /\ DfsRunning /\ dfs.frames = <<>> /\ dfs.scan # <<>>
    /\ Head(dfs.scan) \in dfs.visited
    /\ dfs' = [dfs EXCEPT !.scan = Tail(@)]
    /\ called' = "hasCycle: skip"
    /\ UNCHANGED cyclic
    /\ DfsUnchanged

\* the for loop is over: return false
ScanEnd ==
    /\ DfsRunning /\ dfs.frames = <<>> /\ dfs.scan = <<>>
    /\ dfs' = [dfs EXCEPT !.result = "false"]
    /\ cyclic' = FALSE
    /\ called' = "hasCycle"
    /\ DfsUnchanged

TopFrame == dfs.frames[Len(dfs.frames)]

\* if (!visited.has(neighbor)) dfs(neighbor)
Descend ==
    /\ DfsRunning /\ dfs.frames # <<>> /\ TopFrame.neighbors # <<>>
    /\ Head(TopFrame.neighbors) \notin dfs.visited
    /\ dfs' = DfsEnter(DfsAdvance(dfs), Head(TopFrame.neighbors))
    /\ called' = "hasCycle: dfs"
    /\ UNCHANGED cyclic
    /\ DfsUnchanged

\* CrossEdge with the test of recursionStack lost: any visited neighbour
\* makes every frame return true
CrossEdge_Reports ==
    /\ DfsRunning /\ dfs.frames # <<>> /\ TopFrame.neighbors # <<>>
    /\ Head(TopFrame.neighbors) \in dfs.visited
    /\ Head(TopFrame.neighbors) \notin dfs.recursionStack
    /\ dfs' = [dfs EXCEPT !.result = "true",
                          !.trace = Append(@, <<"back", TopFrame.nodeId,
                                                Head(TopFrame.neighbors)>>)]
    /\ cyclic' = TRUE
    /\ called' = "hasCycle"
    /\ DfsUnchanged

\* else if (recursionStack.has(neighbor)) return true, in every frame
BackEdge ==
    /\ DfsRunning /\ dfs.frames # <<>> /\ TopFrame.neighbors # <<>>
    /\ Head(TopFrame.neighbors) \in dfs.visited
    /\ Head(TopFrame.neighbors) \in dfs.recursionStack
    /\ dfs' = [dfs EXCEPT !.result = "true",
                          !.trace = Append(@, <<"back", TopFrame.nodeId,
                                                Head(TopFrame.neighbors)>>)]
    /\ cyclic' = TRUE
    /\ called' = "hasCycle"
    /\ DfsUnchanged

\* a visited neighbour that is not on the recursion stack: the loop goes on
CrossEdge ==
    /\ DfsRunning /\ dfs.frames # <<>> /\ TopFrame.neighbors # <<>>
    /\ Head(TopFrame.neighbors) \in dfs.visited
    /\ Head(TopFrame.neighbors) \notin dfs.recursionStack
    /\ dfs' = [DfsAdvance(dfs) EXCEPT
                  !.trace = Append(@, <<"cross", TopFrame.nodeId,
                                        Head(TopFrame.neighbors)>>)]
    /\ called' = "hasCycle: cross"
    /\ UNCHANGED cyclic
    /\ DfsUnchanged

\* the neighbours are exhausted: recursionStack.delete(nodeId); return false
Finish ==
    /\ DfsRunning /\ dfs.frames # <<>> /\ TopFrame.neighbors = <<>>
    /\ dfs' = [dfs EXCEPT !.recursionStack = @ \ {TopFrame.nodeId},
                          !.frames = SubSeq(@, 1, Len(@) - 1),
                          !.trace = Append(@, <<"finish", TopFrame.nodeId>>)]
    /\ called' = "hasCycle: return"
    /\ UNCHANGED cyclic
    /\ DfsUnchanged

NextHasCycle ==
    \/ ScanVisit
    \/ ScanSkip
    \/ ScanEnd
    \/ Descend
    \/ BackEdge
    \/ CrossEdge
    \/ Finish

SpecHasCycle == InitHasCycle /\ [][NextHasCycle]_vars

(***************************************************************************)
(* topologicalSort step by step: the edges are entered one by one into     *)
(* adjacency and inDegree, the queue is seeded, then the while loop        *)
(* dequeues a node and relaxes its successors one at a time.  The model    *)
(* counts the dequeues and records every id pushed onto the queue.         *)
(***************************************************************************)
\* longest edge array of the graphs sorted step by step
MaxSortEdges == 2

InitKahn ==
    /\ nodes \in PlainNodeArrays
    /\ edges \in SeqsUpTo(PlainEdges(NodeIds), MaxSortEdges)
    /\ rawId = <<>>
    /\ InitResults
    /\ kahn = [phase |-> "on",
               pc |-> "build",
               pendingEdges |-> edges,
               adjacency |-> [k \in IdsOf(nodes) |-> <<>>],
               inDegree |-> [k \in IdsOf(nodes) |-> 0],
               queue |-> <<>>,
               neighbors |-> <<>>,
               sorted |-> <<>>,
               dequeues |-> 0,
               enqueued |-> <<>>]
    /\ session = NoRun
    /\ ui = NoRun
    /\ dfs = NoRun

KahnUnchanged ==
    UNCHANGED <<nodes, edges, cyclic, components, code, errors,
                rawId, sanitized, sanitizedAgain, session, ui, dfs>>

\* edges.forEach, one edge: adjacency.get(source)?.push(target); inDegree + 1
BuildEdge ==
    /\ kahn.phase = "on" /\ kahn.pc = "build" /\ kahn.pendingEdges # <<>>
    /\ LET b == TsBuild(<<Head(kahn.pendingEdges)>>, kahn.adjacency, kahn.inDegree)
       IN  kahn' = [kahn EXCEPT !.pendingEdges = Tail(@),
                                !.adjacency = b.adjacency,
                                !.inDegree = b.inDegree]
    /\ called' = "topologicalSort: build"
    /\ UNCHANGED sorted
    /\ KahnUnchanged

\* nodes.forEach(node => if (inDegree.get(node.id) === 0) queue.push(node.id))
SeedQueue ==
    /\ kahn.phase = "on" /\ kahn.pc = "build" /\ kahn.pendingEdges = <<>>
    /\ LET queue == TsSeed(nodes, kahn.inDegree)
       IN  kahn' = [kahn EXCEPT !.pc = "loop", !.queue = queue, !.enqueued = queue]
    /\ called' = "topologicalSort: seed"
    /\ UNCHANGED sorted
    /\ KahnUnchanged

\* const nodeId = queue.shift(); if (node) sorted.push(node); its successors
Dequeue ==
    /\ kahn.phase = "on" /\ kahn.pc = "loop"
    /\ kahn.neighbors = <<>> /\ kahn.queue # <<>>
    /\ LET nodeId == Head(kahn.queue)
       IN  kahn' = [kahn EXCEPT !.queue = Tail(@),
                                !.sorted = @ \o NodeOfId(nodes, nodeId),
                                !.neighbors = IF nodeId \in DOMAIN kahn.adjacency
                                              THEN kahn.adjacency[nodeId] ELSE <<>>,
                                !.dequeues = @ + 1]
    /\ called' = "topologicalSort: shift"
    /\ UNCHANGED sorted
    /\ KahnUnchanged

\* inDegree.set(neighborId, degree - 1); degree - 1 === 0: queue.push(neighborId)
RelaxEnqueue ==
    /\ kahn.phase = "on" /\ kahn.pc = "loop" /\ kahn.neighbors # <<>>
    /\ LET neighborId == Head(kahn.neighbors)
           degree == DegreeOrZero(kahn.inDegree, neighborId)
       IN  /\ degree - 1 = 0
           /\ kahn' = [kahn EXCEPT !.inDegree = MapSet(@, neighborId, degree - 1),
                                   !.queue = Append(@, neighborId),
                                   !.enqueued = Append(@, neighborId),
                                   !.neighbors = Tail(@)]
    /\ called' = "topologicalSort: push"
    /\ UNCHANGED sorted
    /\ KahnUnchanged

\* inDegree.set(neighborId, degree - 1); degree - 1 is not 0: nothing pushed
RelaxSkip ==
    /\ kahn.phase = "on" /\ kahn.pc = "loop" /\ kahn.neighbors # <<>>
    /\ LET neighborId == Head(kahn.neighbors)
           degree == DegreeOrZero(kahn.inDegree, neighborId)
       IN  /\ degree - 1 # 0
           /\ kahn' = [kahn EXCEPT !.inDegree = MapSet(@, neighborId, degree - 1),
                                   !.neighbors = Tail(@)]
    /\ called' = "topologicalSort: decrement"
    /\ UNCHANGED sorted
    /\ KahnUnchanged

\* queue.length is 0: return sorted
ReturnSorted ==
    /\ kahn.phase = "on" /\ kahn.pc = "loop"
    /\ kahn.neighbors = <<>> /\ kahn.queue = <<>>
    /\ kahn' = [kahn EXCEPT !.pc = "done"]
    /\ sorted' = kahn.sorted
    /\ called' = "topologicalSort"
    /\ KahnUnchanged

NextKahn ==
    \/ BuildEdge
    \/ SeedQueue
    \/ Dequeue
    \/ RelaxEnqueue
    \/ RelaxSkip
    \/ ReturnSorted

SpecKahn == InitKahn /\ [][NextKahn]_vars

\* the function runs to completion: a synchronous loop, no step of it waits
SpecKahnFair == SpecKahn /\ WF_vars(NextKahn)


(***************************************************************************)
(* Graph notions the claims are stated with, defined on the input alone.   *)
(***************************************************************************)
\* every edge endpoint is a node of the array
WellFormed(ns, es) ==
    \A i \in 1..Len(es) : es[i].source \in IdsOf(ns) /\ es[i].target \in IdsOf(ns)

\* the edges between nodes of the array, as pairs
Arcs(ns, es) ==
    {<<es[i].source, es[i].target>> : i \in {j \in 1..Len(es) :
        es[j].source \in IdsOf(ns) /\ es[j].target \in IdsOf(ns)}}

\* the pairs <<x, z>> with <<x, y>> in P and <<y, z>> in R
Compose(P, R) == {<<x[1][1], x[2][2]>> : x \in {y \in P \X R : y[1][2] = y[2][1]}}

\* pairs joined by a path of at least one and at most n arcs of R
RECURSIVE PathsUpTo(_, _)
PathsUpTo(R, n) ==
    IF n <= 1 THEN R
    ELSE LET P == PathsUpTo(R, n - 1) IN P \cup Compose(P, R)

\* a path that visits an id twice can be cut short, so paths of as many arcs
\* as there are ids give every pair
TransitiveClosure(R) ==
    PathsUpTo(R, Cardinality({pr[1] : pr \in R} \cup {pr[2] : pr \in R}))

HasDirectedCycle(ns, es) ==
    \E pr \in TransitiveClosure(Arcs(ns, es)) : pr[1] = pr[2]

\* the pairs of ids joined by a path of arcs between nodes of the array,
\* direction ignored
UndirectedPaths(ns, es) ==
    LET A == Arcs(ns, es)
    IN  TransitiveClosure(A \cup {<<pr[2], pr[1]>> : pr \in A})

\* the positions of the array s that hold x
PositionsOf(s, x) == {i \in 1..Len(s) : s[i] = x}

\* the nodes of all components, one after the other
RECURSIVE Flatten(_)
Flatten(ss) == IF ss = <<>> THEN <<>> ELSE Head(ss) \o Flatten(Tail(ss))

\* the smallest position in the node array of a member of component c
FirstMember(ns, c) ==
    CHOOSE i \in 1..Len(ns) :
        /\ ns[i] \in Range(c)
        /\ \A j \in 1..Len(ns) : ns[j] \in Range(c) => i <= j

(***************************************************************************)
(* Claims.                                                                 *)
(***************************************************************************)

\* C1: on an acyclic graph whose edge endpoints are all nodes (parallel edges
\* allowed) topologicalSort returns every input node exactly once, and for
\* every edge u->v, u occurs before v.
C1_TopoSortOrdersDag ==
    (called = "topologicalSort" /\ WellFormed(nodes, edges)
        /\ ~HasDirectedCycle(nodes, edges)) =>
      /\ Len(sorted) = Len(nodes)
      /\ \A i \in 1..Len(nodes) : Cardinality(PositionsOf(sorted, nodes[i])) = 1
      /\ \A e \in 1..Len(edges) :
            \A i, j \in 1..Len(sorted) :
                (sorted[i].id = edges[e].source /\ sorted[j].id = edges[e].target) => i < j

\* C1 witness: a three-node DAG with a parallel edge whose order differs from
\* the node array.
C1_Witness ==
    /\ called = "topologicalSort" /\ WellFormed(nodes, edges)
    /\ ~HasDirectedCycle(nodes, edges)
    /\ Len(nodes) = 3 /\ Len(edges) = 3
    /\ edges[1] = edges[2] /\ edges[3] # edges[1]
    /\ Len(sorted) = 3 /\ sorted # nodes

\* C2: hasCycle returns true exactly when the graph has a directed cycle
\* (self-loops included), wherever in the node array the cycle lies.
C2_HasCycleIffCycle ==
    called = "hasCycle" => (cyclic <=> HasDirectedCycle(nodes, edges))

\* C2 witness: a cycle is reported that the first node of the array does not
\* reach (no edge touches the first node).
C2_Witness ==
    /\ called = "hasCycle" /\ cyclic
    /\ Len(nodes) = 3 /\ WellFormed(nodes, edges)
    /\ \A e \in 1..Len(edges) :
          /\ edges[e].source # nodes[1].id /\ edges[e].target # nodes[1].id
          /\ edges[e].source # edges[e].target

\* the Exec statements of every block of the generated text
ExecLists == {code.componentCodes[k].executionCode : k \in 1..Len(code.componentCodes)}

\* C3: in the text generated for an acyclic graph, for every edge u->v the Exec
\* statement named sanitize(u) comes before the one named sanitize(v), and no
\* Exec statement refers by Out<x, ...> to a name bound only later.
C3_ExecRespectsEdges ==
    (called = "generateTLangCode" /\ Len(nodes) > 0
        /\ ~HasDirectedCycle(nodes, edges)) =>
      /\ \A pr \in Arcs(nodes, edges) :
            \E ex \in ExecLists : \E i, j \in 1..Len(ex) :
                /\ i < j
                /\ ex[i].varName = generateNodeVarName(pr[1])
                /\ ex[j].varName = generateNodeVarName(pr[2])
      /\ (\A x, y \in IdsOf(nodes) :
                generateNodeVarName(x) = generateNodeVarName(y) => x = y) =>
            \A pr \in Arcs(nodes, edges) :
                \A ex \in ExecLists : \A i, j \in 1..Len(ex) :
                    (/\ ex[i].varName = generateNodeVarName(pr[1])
                     /\ ex[j].varName = generateNodeVarName(pr[2])) => i < j
      /\ \A ex \in ExecLists : \A j \in 1..Len(ex) :
            \A p \in 1..Len(ex[j].inputParts) :
                ex[j].inputParts[p].kind = "out" =>
                    \E i \in 1..(j - 1) : ex[i].varName = ex[j].inputParts[p].sourceVar

\* C3 witness: a three-statement block with two Out references whose order is
\* not the order of the node array.
C3_Witness ==
    /\ called = "generateTLangCode" /\ ~HasDirectedCycle(nodes, edges)
    /\ Len(nodes) = 3 /\ Len(code.componentCodes) = 1
    /\ LET ex == code.componentCodes[1].executionCode
       IN  /\ Len(ex) = 3
           /\ ex[1].varName # generateNodeVarName(nodes[1].id)
           /\ \E p \in 1..Len(ex[2].inputParts) : ex[2].inputParts[p].kind = "out"
           /\ \E p \in 1..Len(ex[3].inputParts) : ex[3].inputParts[p].kind = "out"

\* a findConnectedComponents result is at hand
HaveComponents == called \in {"findConnectedComponents", "generateTLangCode"}

\* no edge has the node as source or target
Isolated(n, es) == \A e \in 1..Len(es) : es[e].source # n.id /\ es[e].target # n.id

\* C4: findConnectedComponents partitions the node array: every node is in
\* exactly one component, no component is empty, a node without incident edge
\* is a singleton component with no edge, and without edges there is one
\* component per node.
C4_ComponentsPartition ==
    HaveComponents =>
      /\ \A i \in 1..Len(nodes) :
            Cardinality(PositionsOf(Flatten(components), nodes[i])) = 1
      /\ Len(Flatten(components)) = Len(nodes)
      /\ \A k \in 1..Len(components) : Len(components[k]) > 0
      /\ \A i \in 1..Len(nodes) :
            Isolated(nodes[i], edges) =>
                \E k \in 1..Len(components) :
                    /\ components[k] = <<nodes[i]>>
                    /\ componentEdges(components[k], edges) = <<>>
      /\ (edges = <<>> => Len(components) = Len(nodes))

\* C4 witness: three nodes, one of them isolated, the other two joined.
C4_Witness ==
    /\ called = "findConnectedComponents"
    /\ Len(nodes) = 3 /\ Len(components) = 2
    /\ Isolated(nodes[2], edges)
    /\ Len(edges) >= 1 /\ WellFormed(nodes, edges)

\* the connections of every block, one block after the other
AllConnections ==
    Flatten([k \in 1..Len(code.componentCodes) |-> code.componentCodes[k].connections])

\* the connection literal of an edge
ConnectionOf(edge) ==
    [fromNode |-> generateNodeVarName(edge.source),
     fromPort |-> HandleOr(edge.sourceHandle, "out"),
     toNode |-> generateNodeVarName(edge.target),
     toPort |-> HandleOr(edge.targetHandle, "in")]

\* the connection literals of the edges, edge by edge
RECURSIVE ConnectionsOf(_)
ConnectionsOf(es) ==
    IF es = <<>> THEN <<>> ELSE <<ConnectionOf(Head(es))>> \o ConnectionsOf(Tail(es))

\* the edges that pass the edge filter of each component, component by component
RECURSIVE FilteredBy(_)
FilteredBy(comps) ==
    IF comps = <<>> THEN <<>>
    ELSE <<Range(componentEdges(Head(comps), edges))>> \o FilteredBy(Tail(comps))

\* C5: when every edge endpoint is a node, each input edge passes the edge
\* filter of exactly one component, and the blocks of the generated text hold
\* every edge's connection literal as often as the edge array holds it.
C5_EdgesPartitioned ==
    (called = "generateTLangCode" /\ Len(nodes) > 0 /\ WellFormed(nodes, edges)) =>
      LET filtered == FilteredBy(components)
          emitted == AllConnections
          literal == ConnectionsOf(edges)
      IN  /\ \A e \in 1..Len(edges) :
                Cardinality({k \in 1..Len(components) : edges[e] \in filtered[k]}) = 1
          /\ Len(emitted) = Len(edges)
          /\ \A e \in 1..Len(edges) :
                Cardinality(PositionsOf(emitted, literal[e]))
                    = Cardinality({f \in 1..Len(edges) : literal[f] = literal[e]})

\* C5 witness: two blocks, one with connections, the other a self-loop or none.
C5_Witness ==
    /\ called = "generateTLangCode" /\ WellFormed(nodes, edges)
    /\ Len(nodes) = 3 /\ Len(edges) = 3
    /\ Len(code.componentCodes) = 2
    /\ Len(code.componentCodes[1].connections) = 2
    /\ Len(code.componentCodes[2].connections) = 1

\* the component that holds node n
ComponentOf(n) == CHOOSE k \in 1..Len(components) : n \in Range(components[k])

\* C6: two nodes are in the same component exactly when a path of edges joins
\* them with the direction of the edges ignored.
C6_ComponentsAreConnectivity ==
    HaveComponents =>
      LET joined == UndirectedPaths(nodes, edges)
      IN  \A i, j \in 1..Len(nodes) :
              (ComponentOf(nodes[i]) = ComponentOf(nodes[j]))
                  <=> (i = j \/ <<nodes[i].id, nodes[j].id>> \in joined)

\* C6 witness: one component of three nodes found from a first node that has
\* no outgoing edge, and a graph with two components.
C6_Witness ==
    /\ called = "findConnectedComponents"
    /\ Len(nodes) = 3 /\ Len(components) = 1
    /\ \A e \in 1..Len(edges) : edges[e].source # nodes[1].id
    /\ WellFormed(nodes, edges)

\* C7: components come in the order in which their first member occurs in the
\* node array, each starting with that member, and the blocks TypeFlow_k /
\* Result_k of the generated text are the components in that order.
C7_ComponentOrder ==
    /\ HaveComponents =>
          /\ \A k \in 1..Len(components) :
                components[k][1] = nodes[FirstMember(nodes, components[k])]
          /\ \A k, l \in 1..Len(components) :
                k < l => FirstMember(nodes, components[k]) < FirstMember(nodes, components[l])
    /\ (called = "generateTLangCode" /\ Len(nodes) > 0) =>
          /\ Len(code.componentCodes) = Len(components)
          /\ \A k \in 1..Len(components) :
                LET block == code.componentCodes[k]
                IN  /\ block.typeflowName = <<"TypeFlow", k>>
                    /\ block.resultTypeName = <<"Result", k>>
                    /\ block.nodeDefinitions =
                          [i \in 1..Len(components[k]) |->
                              [varName |-> generateNodeVarName(components[k][i].id),
                               tlangType |-> components[k][i].metadata.tlangType]]

\* C7 witness: two blocks, the first holding the first and the third node of
\* the array, the second the node between them.
C7_Witness ==
    /\ called = "generateTLangCode"
    /\ Len(nodes) = 3 /\ Len(components) = 2
    /\ Range(components[1]) = {nodes[1], nodes[3]}
    /\ components[2] = <<nodes[2]>>
    /\ code.componentCodes[2].typeflowName = <<"TypeFlow", 2>>

\* C8: the final declaration is Result = Result_1 with exactly one component
\* and the tuple [Result_1, ..., Result_n] in component order with n > 1; two
\* isolated nodes give two singleton components and a 2-tuple.
C8_FinalResult ==
    (called = "generateTLangCode" /\ Len(nodes) > 0) =>
      LET n == Len(code.componentCodes)
          main == code.mainResultType
      IN  /\ n >= 1
          /\ n = 1 => (~main.tuple /\ main.of = <<code.componentCodes[1].resultTypeName>>)
          /\ n > 1 => /\ main.tuple
                      /\ main.of = [k \in 1..n |-> code.componentCodes[k].resultTypeName]
          /\ (Len(nodes) = 2 /\ edges = <<>>) =>
                /\ n = 2 /\ main.tuple /\ Len(main.of) = 2
                /\ \A k \in 1..2 : Len(code.componentCodes[k].nodeDefinitions) = 1

\* C8 witness: two isolated nodes.
C8_Witness ==
    /\ called = "generateTLangCode"
    /\ Len(nodes) = 2 /\ edges = <<>>
    /\ code.mainResultType = [tuple |-> TRUE, of |-> << <<"Result", 1>>, <<"Result", 2>> >>]

\* no edge has the node as its target
IsEntry(n, es) == \A e \in 1..Len(es) : es[e].target # n.id

\* some edge arrives at the port of the node
HasIncoming(n, portId, es) ==
    \E e \in 1..Len(es) : es[e].target = n.id /\ HandleOr(es[e].targetHandle, "in") = portId

\* the Exec statements of the text that bind the sanitized name of node n
StatementsOf(n) ==
    {st \in UNION {Range(ex) : ex \in ExecLists} : st.varName = generateNodeVarName(n.id)}

\* the parts of statement st that bind the port
PartsFor(st, portId) == {pt \in Range(st.inputParts) : pt.port = portId}

\* C9: every entry node's Exec statement binds each required input port that
\* has no incoming edge and no user-supplied value to the default literal of
\* the port type (the code omits such a port from the call).
C9_EntryDefaultInExec ==
    (called = "generateTLangCode" /\ Len(nodes) > 0) =>
      \A i \in 1..Len(nodes) :
          IsEntry(nodes[i], edges) =>
              \A p \in 1..Len(nodes[i].metadata.inputs) :
                  LET input == nodes[i].metadata.inputs[p]
                  IN  (input.required /\ ~HasInputValue(nodes[i], input.id)) =>
                          \E st \in StatementsOf(nodes[i]) :
                              \E pt \in PartsFor(st, input.id) :
                                  /\ pt.kind = "literal"
                                  /\ pt.text = JSONStringify(getDefaultValueForType(input.type))

\* C10: a declared input port without incoming connection is bound to a literal
\* only if the node is an entry node and a value is stored for the port; with
\* neither a connection nor a stored value the port is omitted (the code binds
\* the stored value of a non-entry node too).
C10_LiteralOnlyOnEntryNodes ==
    (called = "generateTLangCode" /\ Len(nodes) > 0 /\ WellFormed(nodes, edges)) =>
      \A i \in 1..Len(nodes) :
          \A st \in StatementsOf(nodes[i]) :
              (\A j \in 1..Len(nodes) :
                    generateNodeVarName(nodes[j].id) = st.varName => j = i) =>
                  \A p \in 1..Len(nodes[i].metadata.inputs) :
                      LET input == nodes[i].metadata.inputs[p]
                      IN  ~HasIncoming(nodes[i], input.id, edges) =>
                            /\ (\E pt \in PartsFor(st, input.id) : pt.kind = "literal") =>
                                  (IsEntry(nodes[i], edges) /\ HasInputValue(nodes[i], input.id))
                            /\ ~HasInputValue(nodes[i], input.id) => PartsFor(st, input.id) = {}

\* the edges that arrive at the port of the node
IncomingAt(n, portId, es) ==
    {e \in 1..Len(es) :
        es[e].target = n.id /\ HandleOr(es[e].targetHandle, "in") = portId}

\* the largest and the smallest member of a non-empty set of numbers
Max(S) == CHOOSE x \in S : \A y \in S : y <= x
Min(S) == CHOOSE x \in S : \A y \in S : x <= y

\* the reference Out<sanitize(source), source port or 'out'> bound to the port
OutPartOf(portId, edge) ==
    [port |-> portId, kind |-> "out",
     sourceVar |-> generateNodeVarName(edge.source),
     sourcePort |-> HandleOr(edge.sourceHandle, "out")]

\* no other node of the array has the sanitized name of node i
UniqueName(i) ==
    \A j \in 1..Len(nodes) :
        generateNodeVarName(nodes[j].id) = generateNodeVarName(nodes[i].id) => j = i

\* C11: the incoming-connection index holds, for every (node, port) that edges
\* target, the source and source port (or 'out') of the last such edge of the
\* edge array; the Exec statement of a node binds each declared port that edges
\* from nodes arrive at exactly once, to Out<sanitize(source), source port> of
\* the last of these edges, whether or not a value is stored for the port.
C11_LastEdgeWins ==
    (called = "generateTLangCode" /\ Len(nodes) > 0) =>
      /\ LET map == buildInputConnectionsMap(edges)
         IN  /\ DOMAIN map = {edges[e].target : e \in 1..Len(edges)}
             /\ \A e \in 1..Len(edges) :
                  LET t == edges[e].target
                      p == HandleOr(edges[e].targetHandle, "in")
                      last == edges[Max({f \in 1..Len(edges) :
                                  /\ edges[f].target = t
                                  /\ HandleOr(edges[f].targetHandle, "in") = p})]
                  IN  /\ p \in DOMAIN map[t]
                      /\ map[t][p] = [sourceNode |-> last.source,
                                      sourcePort |-> HandleOr(last.sourceHandle, "out")]
      /\ \A i \in 1..Len(nodes) :
            UniqueName(i) =>
              \A st \in StatementsOf(nodes[i]) :
                \A p \in 1..Len(nodes[i].metadata.inputs) :
                  LET portId == nodes[i].metadata.inputs[p].id
                      inc == {e \in IncomingAt(nodes[i], portId, edges) :
                                 edges[e].source \in IdsOf(nodes)}
                  IN  inc # {} =>
                        /\ Cardinality({k \in 1..Len(st.inputParts) :
                                           st.inputParts[k].port = portId}) = 1
                        /\ PartsFor(st, portId) = {OutPartOf(portId, edges[Max(inc)])}

\* C11 witness: two edges with different source handles arrive at a port that
\* has a stored value, and the statement binds the port to the later edge.
C11_Witness ==
    /\ called = "generateTLangCode"
    /\ \E i \in 1..Len(nodes) : \E p \in 1..Len(nodes[i].metadata.inputs) :
        LET portId == nodes[i].metadata.inputs[p].id
            inc == IncomingAt(nodes[i], portId, edges)
        IN  /\ HasInputValue(nodes[i], portId)
            /\ Cardinality(inc) >= 2
            /\ edges[Min(inc)].sourceHandle # edges[Max(inc)].sourceHandle
            /\ \E st \in StatementsOf(nodes[i]) :
                  PartsFor(st, portId) = {OutPartOf(portId, edges[Max(inc)])}

\* the fixed default literal of a port type
DefaultLiteral(portType) ==
    CASE portType = "string" -> [type |-> "string", val |-> "hello_world"]
      [] portType = "number" -> [type |-> "number", val |-> 42]
      [] portType = "boolean" -> [type |-> "boolean", val |-> TRUE]
      [] portType = "object" -> [type |-> "object", val |-> [id |-> 1, name |-> "example"]]
      [] portType = "array" -> [type |-> "array", val |-> <<1, 2, 3>>]
      [] OTHER -> [type |-> "null", val |-> "null"]

\* the initial-values entry of a node: its required ports in declared order,
\* each with the stored value or else the default of the port type
ExpectedEntry(n) ==
    LET Required(input) == input.required
        req == SelectSeq(n.metadata.inputs, Required)
    IN  [varName |-> generateNodeVarName(n.id),
         inputs |-> [j \in 1..Len(req) |->
                        [id |-> req[j].id,
                         value |-> IF HasInputValue(n, req[j].id)
                                   THEN InputValue(n, req[j].id)
                                   ELSE DefaultLiteral(req[j].type)]]]

\* the nodes of component comp that no edge from a node of comp arrives at
EntryNodesOf(comp) ==
    LET Entry(n) == \A e \in 1..Len(edges) :
                        ~(edges[e].target = n.id /\ edges[e].source \in IdsOf(comp))
    IN  SelectSeq(comp, Entry)

\* C12: the initial-values block of a component has one entry per entry node of
\* the component, in component order; an entry holds exactly the required
\* ports of the node, each with the stored value when there is one and else
\* the default of the port type; a port that is not required never appears.
C12_InitialValues ==
    (called = "generateTLangCode" /\ Len(nodes) > 0) =>
      \A k \in 1..Len(components) :
        LET ent == EntryNodesOf(components[k])
            initialData == code.componentCodes[k].initialData
        IN  /\ initialData = [i \in 1..Len(ent) |-> ExpectedEntry(ent[i])]
            /\ \A i \in 1..Len(ent) : \A p \in 1..Len(ent[i].metadata.inputs) :
                  LET input == ent[i].metadata.inputs[p]
                  IN  input.required <=>
                        \E j \in 1..Len(initialData[i].inputs) :
                            initialData[i].inputs[j].id = input.id

\* C12 witness: an entry node with a stored value for a required port and for
\* a port that is not required; the other required ports get their defaults.
C12_Witness ==
    /\ called = "generateTLangCode" /\ Len(nodes) > 0
    /\ HasInputValue(nodes[1], "opt") /\ HasInputValue(nodes[1], "s")
    /\ Len(code.componentCodes[1].initialData) >= 1
    /\ code.componentCodes[1].initialData[1].inputs =
          <<[id |-> "s", value |-> [type |-> "string", val |-> "hi"]],
            [id |-> "flag", value |-> [type |-> "boolean", val |-> TRUE]],
            [id |-> "list", value |-> [type |-> "array", val |-> <<1, 2, 3>>]],
            [id |-> "any", value |-> [type |-> "null", val |-> "null"]]>>

\* the edges between nodes of component comp
EdgesWithin(comp) ==
    LET Inside(e) == e.source \in IdsOf(comp) /\ e.target \in IdsOf(comp)
    IN  SelectSeq(edges, Inside)

\* the nodes of component comp without an edge to a node of comp
TerminalNodesOf(comp) ==
    LET Terminal(n) == \A e \in 1..Len(edges) :
                           ~(edges[e].source = n.id /\ edges[e].target \in IdsOf(comp))
    IN  SelectSeq(comp, Terminal)

\* Out<sanitize(n), first declared output port or 'out'>
ExpectedRef(n) ==
    [kind |-> "out",
     varName |-> generateNodeVarName(n.id),
     outputPort |-> IF n.metadata.outputs = <<>> THEN "out" ELSE n.metadata.outputs[1].id]

\* C13, as stated: the result reference of every component is Out<sanitize(t), p>
\* with t the first terminal node of the component or, without a terminal node,
\* the last node of its topological order, and p the first declared output port
\* of t or 'out' (fails for a component that is one cycle: the order is empty).
C13_ResultIsOutReference ==
    (called = "generateTLangCode" /\ Len(nodes) > 0) =>
      \A k \in 1..Len(components) :
        LET term == TerminalNodesOf(components[k])
            srt == topologicalSort(components[k], EdgesWithin(components[k]))
            resultExpr == code.componentCodes[k].resultExpr
        IN  /\ resultExpr.kind = "out"
            /\ term # <<>> => resultExpr = ExpectedRef(term[1])
            /\ term = <<>> => (srt # <<>> /\ resultExpr = ExpectedRef(srt[Len(srt)]))

\* C13, amended: as above when the component has a terminal node or a
\* non-empty topological order; a component with neither (every node lies on
\* or behind a cycle) has the result never.
C13_ResultReference ==
    (called = "generateTLangCode" /\ Len(nodes) > 0) =>
      \A k \in 1..Len(components) :
        LET term == TerminalNodesOf(components[k])
            srt == topologicalSort(components[k], EdgesWithin(components[k]))
            resultExpr == code.componentCodes[k].resultExpr
        IN  IF term # <<>> THEN resultExpr = ExpectedRef(term[1])
            ELSE IF srt # <<>> THEN resultExpr = ExpectedRef(srt[Len(srt)])
                 ELSE resultExpr = [kind |-> "never"]

\* C13 witness: a first component that is a cycle of two nodes, with result
\* never, and a second one whose result is an Out reference.
C13_Witness ==
    /\ called = "generateTLangCode"
    /\ Len(components) = 2 /\ Len(components[1]) = 2
    /\ TerminalNodesOf(components[1]) = <<>>
    /\ code.componentCodes[1].resultExpr = [kind |-> "never"]
    /\ code.componentCodes[2].resultExpr = ExpectedRef(components[2][1])

\* the messages of the given kind, in the order of the list
ErrorsOfKind(kind) ==
    LET Keep(msg) == msg.kind = kind
    IN  SelectSeq(errors, Keep)

\* the required ports of node n that no edge arrives at
UnboundRequired(n) ==
    LET Unbound(input) == input.required /\ IncomingAt(n, input.id, edges) = {}
    IN  SelectSeq(n.metadata.inputs, Unbound)

\* the 'missing required input' messages of node n: none for an entry node
MissingOf(n) ==
    IF IsEntry(n, edges) THEN <<>>
    ELSE [j \in 1..Len(UnboundRequired(n)) |->
            [kind |-> "missing", node |-> n.label, input |-> UnboundRequired(n)[j].label]]

\* C14: the 'missing required input' messages of validateGraph are, node by
\* node and port by port, exactly the required ports that no edge arrives at,
\* of the nodes that are not entry nodes; an entry node gives none, a non-entry
\* node with one unbound required port gives one.
C14_MissingRequiredInputs ==
    (called = "validateGraph" /\ Len(nodes) > 0) =>
      /\ ErrorsOfKind("missing") = Flatten([i \in 1..Len(nodes) |-> MissingOf(nodes[i])])
      /\ Len(ErrorsOfKind("missing")) =
            Cardinality({pr \in (1..Len(nodes)) \X (1..5) :
                /\ pr[2] <= Len(nodes[pr[1]].metadata.inputs)
                /\ nodes[pr[1]].metadata.inputs[pr[2]].required
                /\ ~IsEntry(nodes[pr[1]], edges)
                /\ ~HasIncoming(nodes[pr[1]], nodes[pr[1]].metadata.inputs[pr[2]].id, edges)})

\* C14 witness: an entry node with an unbound required port feeds port a of an
\* adder whose port b is unbound: the one message names the adder's port B.
C14_Witness ==
    /\ called = "validateGraph"
    /\ Len(nodes) = 2 /\ Len(edges) = 1
    /\ IsEntry(nodes[1], edges) /\ Len(UnboundRequired(nodes[1])) = 1
    /\ ~IsEntry(nodes[2], edges) /\ Len(UnboundRequired(nodes[2])) = 1
    /\ errors = <<[kind |-> "missing", node |-> "Numbers.Add", input |-> "B"]>>

\* C15: the list of validateGraph holds the cycle message exactly when the
\* node array is non-empty and the graph has a directed cycle; the message then
\* occurs once, as the first element.
C15_CycleMessage ==
    called = "validateGraph" =>
      /\ (ErrorsOfKind("cycle") # <<>>) <=>
            (Len(nodes) > 0 /\ HasDirectedCycle(nodes, edges))
      /\ ErrorsOfKind("cycle") # <<>> =>
            /\ Len(ErrorsOfKind("cycle")) = 1
            /\ errors[1] = [kind |-> "cycle"]

\* C15 witness: A->B->A, with the cycle message in front of another message.
C15_Witness ==
    /\ called = "validateGraph"
    /\ Len(nodes) = 2 /\ Len(edges) = 2
    /\ edges[1].source = nodes[1].id /\ edges[1].target = nodes[2].id
    /\ edges[2].source = nodes[2].id /\ edges[2].target = nodes[1].id
    /\ Len(errors) >= 2 /\ errors[1] = [kind |-> "cycle"]

\* the out-of-range messages of node n: one per stored number beyond the limit
\* when the category is Numbers, none otherwise
RangeOf(n) ==
    LET Beyond(e) == /\ n.metadata.category = "Numbers"
                     /\ e.value.type = "number"
                     /\ (e.value.val > 100 \/ e.value.val < -100)
        big == SelectSeq(n.inputs, Beyond)
    IN  [j \in 1..Len(big) |->
            [kind |-> "range", node |-> n.label,
             inputId |-> big[j].id, value |-> big[j].value.val]]

\* C16: the out-of-range messages of validateGraph are, node by node and input
\* by input, exactly the stored inputs of Numbers nodes that are numbers of
\* absolute value above 100; 100 and -100, values that are not numbers, and
\* numbers stored on nodes of another category give no message.
C16_RangeMessages ==
    (called = "validateGraph" /\ Len(nodes) > 0) =>
      /\ ErrorsOfKind("range") = Flatten([i \in 1..Len(nodes) |-> RangeOf(nodes[i])])
      /\ \A m \in 1..Len(errors) :
            errors[m].kind = "range" => (errors[m].value > 100 \/ errors[m].value < -100)

\* C16 witness: an adder storing 101 and -101 gives two messages; a node of
\* another category storing 150 gives none.
C16_Witness ==
    /\ called = "validateGraph"
    /\ Len(nodes) = 2 /\ edges = <<>>
    /\ nodes[1].metadata.category # "Numbers"
    /\ HasInputValue(nodes[1], "opt") /\ InputValue(nodes[1], "opt") = NumberValue(150)
    /\ errors = <<[kind |-> "range", node |-> "Numbers.Add", inputId |-> "a", value |-> 101],
                  [kind |-> "range", node |-> "Numbers.Add", inputId |-> "b", value |-> -101]>>

\* C17: on every input both entry points return: generateTLangCode gives the
\* placeholder or a text with the import list and at least one block,
\* validateGraph a list of messages, and the text is returned also when the
\* list of the same graph is not empty (cycles, unbound required ports).
C17_Decoupled ==
    /\ called = "generateTLangCode" =>
          /\ code.kind \in {"code", "placeholder"}
          /\ Len(nodes) > 0 =>
                /\ code.kind = "code"
                /\ Len(code.componentCodes) >= 1
                /\ code.imports[1] = "TypeFlow"
    /\ called = "validateGraph" =>
          \A m \in 1..Len(errors) : errors[m].kind \in {"cycle", "missing", "range"}

\* C17 witness: a text is returned for a graph whose problem list holds the
\* cycle message and a missing-input message.
C17_Witness ==
    /\ called = "generateTLangCode" /\ code.kind = "code"
    /\ HasDirectedCycle(nodes, edges)
    /\ LET problems == validateGraph(nodes, edges)
       IN  /\ Len(problems) >= 2
           /\ problems[1].kind = "cycle"
           /\ problems[2].kind = "missing"

\* C18: with an empty node array generateTLangCode returns the placeholder
\* (no import list, no block, no Result declaration) and validateGraph the
\* empty list, whatever the edge array holds; no other input gives the
\* placeholder.
C18_EmptyNodeSet ==
    /\ (called = "generateTLangCode" /\ Len(nodes) = 0) => code = [kind |-> "placeholder"]
    /\ (called = "generateTLangCode" /\ Len(nodes) > 0) => code # [kind |-> "placeholder"]
    /\ (called = "validateGraph" /\ Len(nodes) = 0) => errors = <<>>

\* C18 witness: the placeholder for no nodes and two edges, one a self-loop.
C18_Witness ==
    /\ called = "generateTLangCode"
    /\ nodes = <<>> /\ Len(edges) = 2
    /\ edges[1].source = edges[1].target
    /\ code = [kind |-> "placeholder"]

\* the type references of the type texts of all nodes
AllTypeRefs(ns) == UNION {Range(ParsedTypeRefs(ns[i].metadata.tlangType)) : i \in 1..Len(ns)}

\* the root namespaces of the qualified references
DiscoveredNamespaces(ns) == {ref[1] : ref \in {r \in AllTypeRefs(ns) : Len(r) > 1}}

\* the bare references that are known top-level exports
DiscoveredTopLevel(ns) ==
    {ref[1] : ref \in {r \in AllTypeRefs(ns) : Len(r) = 1 /\ r[1] \in TLANG_TOP_LEVEL_EXPORTS}}

\* the place of a name in the order of Array.prototype.sort
Rank(name) == CHOOSE i \in 1..Len(SortedNames) : SortedNames[i] = name

\* strictly ascending: sorted and without a repeated name
Ascending(names) ==
    \A i, j \in 1..Len(names) : i < j => Rank(names[i]) < Rank(names[j])

\* the arrangements of the node array
Permuted(ns) ==
    {[i \in 1..Len(ns) |-> ns[f[i]]] :
        f \in {g \in [1..Len(ns) -> 1..Len(ns)] :
                  \A i, j \in 1..Len(ns) : g[i] = g[j] => i = j}}

\* C19: the import list is TypeFlow, Exec, Out, then the top-level names
\* discovered in the type texts of all nodes of the graph, sorted and without
\* repetition, then the discovered root namespaces, sorted and without
\* repetition; every arrangement of the node array gives the same list, and so
\* does the same node array without edges (one component per node).
C19_ImportList ==
    (called = "generateTLangCode" /\ Len(nodes) > 0) =>
      LET top == DiscoveredTopLevel(nodes)
          nsp == DiscoveredNamespaces(nodes)
          nt == Cardinality(top)
          imports == code.imports
      IN  /\ Len(imports) = 3 + nt + Cardinality(nsp)
          /\ SubSeq(imports, 1, 3) = <<"TypeFlow", "Exec", "Out">>
          /\ Range(SubSeq(imports, 4, 3 + nt)) = top
          /\ Ascending(SubSeq(imports, 4, 3 + nt))
          /\ Range(SubSeq(imports, 4 + nt, Len(imports))) = nsp
          /\ Ascending(SubSeq(imports, 4 + nt, Len(imports)))
          /\ \A ns \in Permuted(nodes) : importedTypes(ns) = imports
          /\ generateTLangCode(nodes, <<>>).imports = imports

\* C19 witness: a type text with a nested generic argument and a second node
\* whose namespace sorts before the two namespaces found first.
C19_Witness ==
    /\ called = "generateTLangCode"
    /\ Len(nodes) = 2 /\ Len(components) = 1
    /\ nodes[1].metadata.tlangType = "Objects.MapKeys<Strings.CamelCase>"
    /\ nodes[2].metadata.tlangType = "Numbers.Add"
    /\ code.imports = <<"TypeFlow", "Exec", "Out", "Numbers", "Objects", "Strings">>

\* C20: generateNodeVarName returns, for every id, a name that is not empty,
\* starts with a letter or an underscore, holds only letters, digits and
\* underscores, has no two underscores in a row and no underscore at its end;
\* applied to its own result it returns that result.
C20_SanitizeIdempotent ==
    /\ called \in {"generateNodeVarName", "generateNodeVarName again"} =>
          /\ sanitized # <<>>
          /\ sanitized[1] \in Letters \cup {"_"}
          /\ \A i \in 1..Len(sanitized) : sanitized[i] \in Letters \cup Digits \cup {"_"}
          /\ \A i \in 1..(Len(sanitized) - 1) : ~(sanitized[i] = "_" /\ sanitized[i + 1] = "_")
          /\ sanitized[Len(sanitized)] # "_"
    /\ called = "generateNodeVarName again" => sanitizedAgain = sanitized

\* C20 witness: the id 1--_ is replaced, merged, prefixed and stripped to _1,
\* which the function leaves as it is.
C20_Witness ==
    /\ called = "generateNodeVarName again"
    /\ rawId = <<"1", "-", "-", "_">>
    /\ sanitized = <<"_", "1">>
    /\ sanitizedAgain = <<"_", "1">>

\* the nodes of the sequence whose id sanitizes to the name
NamedLike(ns, name) == {i \in 1..Len(ns) : generateNodeVarName(ns[i].id) = name}

\* two nodes of component comp with different ids and the same sanitized name
Colliding(comp) ==
    {pr \in (1..Len(comp)) \X (1..Len(comp)) :
        /\ pr[1] < pr[2]
        /\ comp[pr[1]].id # comp[pr[2]].id
        /\ generateNodeVarName(comp[pr[1]].id) = generateNodeVarName(comp[pr[2]].id)}

\* C21, as stated: when two nodes of a component with different ids have the
\* same sanitized name, the block of the component has two node-map entries
\* and two Exec statements of that name (fails when the two nodes lie on a
\* cycle: they then have no Exec statement at all).
C21_TwoBindings ==
    (called = "generateTLangCode" /\ Len(nodes) > 0) =>
      \A k \in 1..Len(components) : \A pr \in Colliding(components[k]) :
        LET name == generateNodeVarName(components[k][pr[1]].id)
            block == code.componentCodes[k]
        IN  /\ Cardinality({i \in 1..Len(block.nodeDefinitions) :
                               block.nodeDefinitions[i].varName = name}) >= 2
            /\ Cardinality({i \in 1..Len(block.executionCode) :
                               block.executionCode[i].varName = name}) >= 2

\* C21, amended: names are never disambiguated. The node map of a block has
\* one entry per node of the component, so two of the same name for such a
\* pair; the Exec listing has one statement per node of the component's
\* topological order, so two of the same name when the graph is acyclic, and
\* fewer only for nodes that lie on or behind a cycle.
C21_CollidingNames ==
    (called = "generateTLangCode" /\ Len(nodes) > 0) =>
      \A k \in 1..Len(components) : \A pr \in Colliding(components[k]) :
        LET comp == components[k]
            name == generateNodeVarName(comp[pr[1]].id)
            block == code.componentCodes[k]
            srt == topologicalSort(comp, EdgesWithin(comp))
            bound == {i \in 1..Len(block.executionCode) :
                         block.executionCode[i].varName = name}
        IN  /\ Cardinality({i \in 1..Len(block.nodeDefinitions) :
                               block.nodeDefinitions[i].varName = name})
                  = Cardinality(NamedLike(comp, name))
            /\ Cardinality(NamedLike(comp, name)) >= 2
            /\ Cardinality(bound) = Cardinality(NamedLike(srt, name))
            /\ ~HasDirectedCycle(nodes, edges) => Cardinality(bound) >= 2

\* C21 witness: a-b and a_b joined by one edge: two node-map entries and two
\* Exec statements named a_b in the one block.
C21_Witness ==
    /\ called = "generateTLangCode"
    /\ Len(nodes) = 2 /\ Len(edges) = 1 /\ Len(components) = 1
    /\ Colliding(components[1]) # {}
    /\ Len(code.componentCodes[1].executionCode) = 2
    /\ code.componentCodes[1].executionCode[1].varName = <<"a", "_", "b">>
    /\ code.componentCodes[1].executionCode[2].varName = <<"a", "_", "b">>
    /\ code.componentCodes[1].nodeDefinitions[1].varName
          = code.componentCodes[1].nodeDefinitions[2].varName

(***************************************************************************)
(* C22: generateTLangCode is deterministic and stateless across calls: any *)
(* two invocations of a session on the same (nodes, edges) return the same *)
(* text, whatever was invoked before or between them (other graphs,        *)
(* validateGraph), and the text is the one a first invocation returns.     *)
(***************************************************************************)
Generated(i) == session.log[i].op = "generateTLangCode"

SameGraph(i, j) ==
    /\ session.log[i].nodes = session.log[j].nodes
    /\ session.log[i].edges = session.log[j].edges

C23_RunBlocked ==
    ui.phase = "on" =>
        /\ ui.view.disabled <=> (ui.executing \/ validateGraph(nodes, edges) # <<>>)
        /\ ui.runs > 0 =>
              /\ ui.started.validationErrors = <<>>
              /\ ~ui.started.executing

\* after a run was started and has settled, the graph was edited into one
\* with problems: the button is disabled by the problem list alone
C23_Witness ==
    /\ ui.phase = "on"
    /\ ui.runs > 0
    /\ ~ui.executing
    /\ validateGraph(nodes, edges) # <<>>
    /\ ui.view.disabled

(***************************************************************************)
(* C24: within a component, the nodes without an incoming edge seed the    *)
(* queue in the order of the node array passed to generateTLangCode, so    *)
(* the component's Exec listing starts with their statements in that order.*)
(***************************************************************************)
\* the entry nodes of component comp, in the order of the node array
SeedsInArrayOrder(comp) ==
    LET Seed(n) == /\ n \in Range(comp)
                   /\ \A e \in 1..Len(edges) :
                         ~(edges[e].target = n.id /\ edges[e].source \in IdsOf(comp))
    IN  SelectSeq(nodes, Seed)

\* C24, as stated: each component's Exec listing starts with the statements
\* of its entry nodes in the order of the caller's node array (fails when the
\* component search discovers the entry nodes in another order).
C24_SeedInNodeArrayOrder ==
    (called = "generateTLangCode" /\ Len(nodes) > 0) =>
      \A k \in 1..Len(components) :
        LET seeds == SeedsInArrayOrder(components[k])
            executionCode == code.componentCodes[k].executionCode
        IN  /\ Len(executionCode) >= Len(seeds)
            /\ \A i \in 1..Len(seeds) :
                  executionCode[i].varName = generateNodeVarName(seeds[i].id)

(***************************************************************************)
(* C25: on a graph with a directed cycle topologicalSort returns a partial *)
(* sequence of nodes of the array, without duplicates, that holds no node  *)
(* lying on a cycle, and in which every node comes after the sources of    *)
(* all edges into it.                                                      *)
(***************************************************************************)
OnCycle(id) == <<id, id>> \in TransitiveClosure(Arcs(nodes, edges))

\* C25: the sequence returned for a cyclic graph is partial, duplicate-free,
\* free of nodes on a cycle, and orders every node after its predecessors.
C25_PartialOrderOnCycle ==
    (called = "topologicalSort" /\ HasDirectedCycle(nodes, edges)) =>
      /\ Len(sorted) < Len(nodes)
      /\ \A i \in 1..Len(sorted) :
            /\ sorted[i] \in Range(nodes)
            /\ PositionsOf(sorted, sorted[i]) = {i}
            /\ ~OnCycle(sorted[i].id)
            /\ \A e \in 1..Len(edges) :
                  edges[e].target = sorted[i].id =>
                      \E j \in 1..(i - 1) : sorted[j].id = edges[e].source

\* a self-loop with a node behind it and a third, isolated node: only the
\* isolated node is returned, the node behind the cycle is dropped as well
C25_Witness ==
    /\ called = "topologicalSort" /\ HasDirectedCycle(nodes, edges)
    /\ Len(nodes) = 3 /\ Len(sorted) = 1
    /\ \E i \in 1..Len(nodes) :
          /\ ~OnCycle(nodes[i].id)
          /\ nodes[i] \notin Range(sorted)

(***************************************************************************)
(* C26: during one hasCycle pass a node is unvisited, then on the          *)
(* recursion stack, then done, and never moves back: it is put on the      *)
(* stack in the step that first visits it, it leaves the stack only in the *)
(* step that finds its neighbours exhausted, all of them done by then, and *)
(* it never enters the stack again.  A step that reaches a node on the     *)
(* stack ends the pass with true; a step that reaches a done node leaves   *)
(* the pass running.  The pass ends with the value hasCycle returns.       *)
(***************************************************************************)
NodeState(d, id) ==
    IF id \notin d.visited THEN "unvisited"
    ELSE IF id \in d.recursionStack THEN "on-stack"
    ELSE "done"

\* the neighbour the step is about to look at, if there is one
Reaching(id) ==
    /\ DfsRunning /\ dfs.frames # <<>> /\ TopFrame.neighbors # <<>>
    /\ Head(TopFrame.neighbors) = id

C26_Lifecycle ==
    /\ dfs.recursionStack \subseteq dfs.visited
    /\ \A id \in NodeIds :
         /\ NodeState(dfs, id) # NodeState(dfs', id) =>
               \/ /\ NodeState(dfs, id) = "unvisited"
                  /\ NodeState(dfs', id) = "on-stack"
               \/ /\ NodeState(dfs, id) = "on-stack"
                  /\ NodeState(dfs', id) = "done"
                  /\ TopFrame.nodeId = id
                  /\ TopFrame.neighbors = <<>>
                  /\ id \in DOMAIN dfs.adjacency =>
                        \A k \in 1..Len(dfs.adjacency[id]) :
                            NodeState(dfs, dfs.adjacency[id][k]) = "done"
         /\ (Reaching(id) /\ NodeState(dfs, id) = "on-stack") =>
               dfs'.result = "true"
         /\ (Reaching(id) /\ NodeState(dfs, id) = "done") =>
               /\ dfs'.result = "running"
               /\ dfs'.visited = dfs.visited
               /\ dfs'.recursionStack = dfs.recursionStack
    /\ dfs'.result # "running" =>
          (dfs'.result = "true" <=> hasCycle(nodes, edges))

\* C26: every step of a hasCycle pass keeps to the node life cycle above.
C26_NodeStateMachine == [][C26_Lifecycle]_vars

\* the pass has followed an edge to a done node without reporting, and has
\* then ended with true at a node on the stack while another node is done
C26_Witness ==
    /\ dfs.phase = "on"
    /\ dfs.result = "true"
    /\ \E i \in 1..Len(dfs.trace) : dfs.trace[i][1] = "cross"
    /\ \E id \in NodeIds : NodeState(dfs, id) = "done"
    /\ \E id \in NodeIds : NodeState(dfs, id) = "on-stack"

(***************************************************************************)
(* C27: on a graph whose edge endpoints are all nodes of the array the two *)
(* structural algorithms agree: hasCycle returns false exactly when        *)
(* topologicalSort returns as many nodes as the array holds.               *)
(***************************************************************************)
C27_AlgorithmsAgree ==
    (called = "hasCycle" /\ WellFormed(nodes, edges)) =>
        (~cyclic <=> Len(topologicalSort(nodes, edges)) = Len(nodes))

\* hasCycle reports a cycle and topologicalSort returns some nodes, not all
C27_Witness ==
    /\ called = "hasCycle" /\ WellFormed(nodes, edges)
    /\ cyclic
    /\ Len(nodes) = 3
    /\ Len(topologicalSort(nodes, edges)) \in 1..2

(***************************************************************************)
(* C28: in the text generated for a non-empty acyclic graph every          *)
(* component has a terminal node, so its result is the reference to its    *)
(* first terminal node (the topological-order fallback is not taken) and   *)
(* no Result_i is never; never is the result only of a component without a *)
(* terminal node whose topological order is empty, every node of it lying  *)
(* on or behind a cycle.                                                   *)
(***************************************************************************)
OnOrBehindCycle(id) ==
    LET tc == TransitiveClosure(Arcs(nodes, edges))
    IN  \E pr \in tc : pr[1] = pr[2] /\ (pr[1] = id \/ <<pr[1], id>> \in tc)

\* C28: acyclic graphs give no never; never means no terminal node and an
\* empty topological order.
C28_NeverOnlyForCycles ==
    (called = "generateTLangCode" /\ Len(nodes) > 0) =>
      \A k \in 1..Len(components) :
        LET term == TerminalNodesOf(components[k])
            resultExpr == code.componentCodes[k].resultExpr
        IN  /\ ~HasDirectedCycle(nodes, edges) =>
                  /\ term # <<>>
                  /\ resultExpr = ExpectedRef(term[1])
            /\ resultExpr = Never =>
                  /\ term = <<>>
                  /\ topologicalSort(components[k], EdgesWithin(components[k])) = <<>>
                  /\ \A i \in 1..Len(components[k]) :
                        OnOrBehindCycle(components[k][i].id)

\* an acyclic graph of three nodes in one component with two terminal nodes,
\* the first of which is not the last node of the topological order
C28_Witness ==
    /\ called = "generateTLangCode" /\ Len(nodes) = 3
    /\ ~HasDirectedCycle(nodes, edges)
    /\ Len(components) = 1
    /\ Len(TerminalNodesOf(components[1])) = 2
    /\ LET srt == topologicalSort(components[1], EdgesWithin(components[1]))
       IN  TerminalNodesOf(components[1])[1] # srt[Len(srt)]
    /\ code.componentCodes[1].resultExpr = ExpectedRef(TerminalNodesOf(components[1])[1])

(***************************************************************************)
(* C29: in the text generated for an acyclic graph the node map and the    *)
(* Exec listing of every component name the same nodes: the names declared *)
(* in the node map are the names the Exec statements bind, each name as    *)
(* often in the one as in the other, one statement per declared node.      *)
(***************************************************************************)
\* the positions of the list whose varName is name
Naming(list, name) == {i \in 1..Len(list) : list[i].varName = name}

\* C29: node map and Exec listing of a component of an acyclic graph bind the
\* same names, one statement per declared node.
C29_BlocksInSync ==
    (called = "generateTLangCode" /\ Len(nodes) > 0
        /\ ~HasDirectedCycle(nodes, edges)) =>
      \A k \in 1..Len(components) :
        LET nodeDefinitions == code.componentCodes[k].nodeDefinitions
            executionCode == code.componentCodes[k].executionCode
            declared == {nodeDefinitions[i].varName : i \in 1..Len(nodeDefinitions)}
            bound == {executionCode[i].varName : i \in 1..Len(executionCode)}
        IN  /\ declared = bound
            /\ Len(executionCode) = Len(nodeDefinitions)
            /\ Len(nodeDefinitions) = Len(components[k])
            /\ \A name \in declared :
                  Cardinality(Naming(executionCode, name))
                      = Cardinality(Naming(nodeDefinitions, name))

\* an acyclic component of three nodes whose Exec listing is in another order
\* than its node map
C29_Witness ==
    /\ called = "generateTLangCode" /\ ~HasDirectedCycle(nodes, edges)
    /\ Len(components) = 1 /\ Len(components[1]) = 3
    /\ Len(code.componentCodes[1].executionCode) = 3
    /\ \E i \in 1..3 :
          code.componentCodes[1].executionCode[i].varName
              # code.componentCodes[1].nodeDefinitions[i].varName

(***************************************************************************)
(* C30: throughout a run of topologicalSort, on a cyclic or an acyclic     *)
(* graph, with parallel edges or without, no in-degree counter is negative *)
(* and no id is pushed onto the queue twice; on a graph whose edges join   *)
(* nodes of the array the loop dequeues at most Len(nodes) times (an edge  *)
(* to an id that is no node adds at most one dequeue per such id); and     *)
(* the run ends, returning what the function model returns.                *)
(***************************************************************************)
\* the edge targets that are no node of the array
DanglingTargets == {edges[e].target : e \in 1..Len(edges)} \ IdsOf(nodes)

KahnBounds ==
    kahn.phase = "on" =>
        /\ \A id \in DOMAIN kahn.inDegree : kahn.inDegree[id] >= 0
        /\ \A i, j \in 1..Len(kahn.enqueued) :
              kahn.enqueued[i] = kahn.enqueued[j] => i = j
        /\ WellFormed(nodes, edges) => kahn.dequeues <= Len(nodes)
        /\ kahn.dequeues <= Len(nodes) + Cardinality(DanglingTargets)
        /\ kahn.pc = "done" => sorted = topologicalSort(nodes, edges)

\* C30: the bounds hold throughout every run of topologicalSort, and every
\* run ends.
C30_KahnTerminates == []KahnBounds /\ <>(kahn.pc = "done")

\* a run on three nodes with a parallel edge has ended: the target's counter
\* went from 2 to 0, the target was pushed once, the loop dequeued three times
C30_Witness ==
    /\ kahn.phase = "on" /\ kahn.pc = "done"
    /\ WellFormed(nodes, edges)
    /\ Len(nodes) = 3 /\ Len(edges) = 2
    /\ edges[1] = edges[2] /\ edges[1].source # edges[1].target
    /\ kahn.dequeues = 3 /\ Len(kahn.enqueued) = 3

====
